---- MODULE Spec2Model ----
(***************************************************************************)
(* A model of the resolution/install pipeline and the content-addressed    *)
(* store of xe (src/rust/xe_cli/src/main.rs): Cas::store_blob_from_url,    *)
(* Cas::save_solution / load_solution, Installer::install and the helpers  *)
(* it calls.                                                                *)
(*                                                                          *)
(* Text is a sequence of one-character strings, ordered byte-wise as Rust   *)
(* orders String.  File contents are sequences of chunks.                   *)
(***************************************************************************)
EXTENDS Integers, Sequences, FiniteSets, TLC

(***************************************************************************)
(* Bounds of the model.                                                     *)
(***************************************************************************)
\* calls of store_blob_from_url the CAS specification follows
MaxCalls == 2
\* process kills the CAS specification follows
MaxKills == 1
\* calls of install, one after the other
MaxRuns == 2
\* requirements in a list the key specification starts from
MaxReqs == 2
\* white-space characters the key specification adds to a requirement
MaxPad == 1
\* repetitions of a requirement the normalization specification adds
MaxDup == 1

(***************************************************************************)
(* Text                                                                     *)
(***************************************************************************)
Lower == <<"a","b","c","d","e","f","g","h","i","j","k","l","m",
           "n","o","p","q","r","s","t","u","v","w","x","y","z">>
Upper == <<"A","B","C","D","E","F","G","H","I","J","K","L","M",
           "N","O","P","Q","R","S","T","U","V","W","X","Y","Z">>
Digits == <<"0","1","2","3","4","5","6","7","8","9">>

\* the characters of the model in ASCII order
Ascii == <<"\t", " ", "+", "-", ".", "/">> \o Digits \o <<"=">> \o Upper
         \o <<"_">> \o Lower \o <<"|">>

Code(c) == CHOOSE i \in 1..Len(Ascii) : Ascii[i] = c

IsUpper(c) == \E i \in 1..Len(Upper) : Upper[i] = c

ToLowerChar(c) ==
  IF IsUpper(c) THEN Lower[CHOOSE i \in 1..Len(Upper) : Upper[i] = c] ELSE c

ToUpperChar(c) ==
  IF \E i \in 1..Len(Lower) : Lower[i] = c
  THEN Upper[CHOOSE i \in 1..Len(Lower) : Lower[i] = c] ELSE c

\* str::to_lowercase
ToLower(s) == [i \in 1..Len(s) |-> ToLowerChar(s[i])]

ToUpper(s) == [i \in 1..Len(s) |-> ToUpperChar(s[i])]

\* str::replace(from, to) for single characters
Replace(s, from, to) == [i \in 1..Len(s) |-> IF s[i] = from THEN to ELSE s[i]]

\* char::is_whitespace, for the characters of the model
IsSpace(c) == c \in {" ", "\t"}

RECURSIVE TrimStart(_)
TrimStart(s) ==
  IF s # <<>> /\ IsSpace(Head(s)) THEN TrimStart(Tail(s)) ELSE s

RECURSIVE TrimEnd(_)
TrimEnd(s) ==
  IF s # <<>> /\ IsSpace(s[Len(s)]) THEN TrimEnd(SubSeq(s, 1, Len(s) - 1)) ELSE s

\* str::trim
Trim(s) == TrimEnd(TrimStart(s))

\* str::eq_ignore_ascii_case
EqIgnoreAsciiCase(a, b) == ToLower(a) = ToLower(b)

\* Ord for str: byte-wise lexicographic, a proper prefix is smaller
RECURSIVE StrLess(_, _)
StrLess(a, b) ==
  IF b = <<>> THEN FALSE
  ELSE IF a = <<>> THEN TRUE
  ELSE IF Head(a) = Head(b) THEN StrLess(Tail(a), Tail(b))
  ELSE Code(Head(a)) < Code(Head(b))

StrLeq(a, b) == a = b \/ StrLess(a, b)

EndsWith(s, suf) ==
  Len(s) >= Len(suf) /\ SubSeq(s, Len(s) - Len(suf) + 1, Len(s)) = suf

\* str::trim_end_matches(pattern): removes the suffix as often as it matches
RECURSIVE TrimEndMatches(_, _)
TrimEndMatches(s, suf) ==
  IF suf # <<>> /\ EndsWith(s, suf)
  THEN TrimEndMatches(SubSeq(s, 1, Len(s) - Len(suf)), suf) ELSE s

\* str::rfind(char): the last index (from 1) of c in s, 0 when there is none
RFind(s, c) ==
  IF \E i \in 1..Len(s) : s[i] = c
  THEN CHOOSE i \in 1..Len(s) : s[i] = c /\ \A j \in (i+1)..Len(s) : s[j] # c
  ELSE 0

SeqToSet(s) == {s[i] : i \in 1..Len(s)}

(***************************************************************************)
(* Vec<String>::sort: by the byte-wise order of the strings.                *)
(***************************************************************************)
RECURSIVE InsertString(_, _)
InsertString(x, s) ==
  IF s = <<>> THEN <<x>>
  ELSE IF StrLeq(Head(s), x) THEN <<Head(s)>> \o InsertString(x, Tail(s))
  ELSE <<x>> \o s

RECURSIVE SortStrings(_)
SortStrings(s) ==
  IF s = <<>> THEN <<>>
  ELSE InsertString(s[Len(s)], SortStrings(SubSeq(s, 1, Len(s) - 1)))

(***************************************************************************)
(* File contents and their SHA-256.  A content is a sequence of chunks;    *)
(* Sha256Hex is an injective function of the contents of the model, given  *)
(* as hex::encode gives it: lowercase hex digits.                           *)
(***************************************************************************)
HexDigits == Digits \o <<"a","b","c","d","e","f">>

RECURSIVE DataCode(_)
DataCode(d) ==
  IF d = <<>> THEN 0 ELSE d[Len(d)] + 4 * DataCode(SubSeq(d, 1, Len(d) - 1))

HexEncode3(n) ==
  << HexDigits[((n \div 256) % 16) + 1],
     HexDigits[((n \div 16) % 16) + 1],
     HexDigits[(n % 16) + 1] >>

Sha256Hex(d) == HexEncode3((DataCode(d) * 37 + 2572) % 4096)

\* the archives a server of the model can answer with
BodyA == <<1>>
BodyB == <<2>>
BodyC == <<3>>
Bodies == {BodyA, BodyB, BodyC}

Url1 == <<"u", "1">>
Url2 == <<"u", "2">>
Url3 == <<"u", "3">>

\* what a GET of the url answers with
Serves(url) ==
  IF url = Url1 THEN {BodyA} ELSE IF url = Url2 THEN {BodyB} ELSE {BodyC}

\* the urls the CAS specification calls with
Urls == {Url1, Url2}

\* the expected_sha256 arguments the CAS specification calls with: none
\* (blank), the hash of BodyA as hex::encode gives it, and in upper case
ExpectedHashes == { <<" ">>, Sha256Hex(BodyA), ToUpper(Sha256Hex(BodyA)) }

(***************************************************************************)
(* The pure helpers of Installer::install                                   *)
(***************************************************************************)
\* normalize_requirements without the sort of line 2390
normalize_requirements_unsorted(reqs) ==
  SelectSeq([i \in 1..Len(reqs) |-> Trim(reqs[i])], LAMBDA r : r # <<>>)

\* normalize_requirements without the filter of line 2388
normalize_requirements_unfiltered(reqs) ==
  SortStrings([i \in 1..Len(reqs) |-> Trim(reqs[i])])

\* normalize_requirements: trim, drop the empty ones, sort
normalize_requirements(reqs) ==
  SortStrings(SelectSeq([i \in 1..Len(reqs) |-> Trim(reqs[i])],
                        LAMBDA r : r # <<>>))

\* SHA-1 as hex, taken as injective: the digest is named by what was hashed
Sha1Hex(bytes) == <<"sha1">> \o bytes

RECURSIVE JoinBar(_)
JoinBar(reqs) ==
  IF reqs = <<>> THEN <<>> ELSE Head(reqs) \o <<"|">> \o JoinBar(Tail(reqs))

\* solve_key: sha1(version "|" req1 "|" req2 "|" ...)
solve_key(python_version, reqs) ==
  Sha1Hex(python_version \o <<"|">> \o JoinBar(reqs))

Package(name, version, url, hash) ==
  [name |-> name, version |-> version, download_url |-> url, hash |-> hash]

\* the key of dedupe_packages, line 2408
DedupeKey(pkg) == ToLower(pkg.name) \o <<"=", "=">> \o pkg.version

\* a map that keeps the record inserted first under a key
RECURSIVE DedupeMapFirst(_)
DedupeMapFirst(pkgs) ==
  IF pkgs = <<>> THEN <<>>
  ELSE LET rest == DedupeMapFirst(SubSeq(pkgs, 1, Len(pkgs) - 1))
           last == pkgs[Len(pkgs)]
       IN [k \in DOMAIN rest \cup {DedupeKey(last)} |->
             IF k \in DOMAIN rest THEN rest[k] ELSE last]

\* BTreeMap::insert over the list: the record inserted last stays
RECURSIVE DedupeMap(_)
DedupeMap(pkgs) ==
  IF pkgs = <<>> THEN <<>>
  ELSE LET rest == DedupeMap(SubSeq(pkgs, 1, Len(pkgs) - 1))
           last == pkgs[Len(pkgs)]
       IN [k \in DOMAIN rest \cup {DedupeKey(last)} |->
             IF k = DedupeKey(last) THEN last ELSE rest[k]]

SetToSortedStrings(S) ==
  CHOOSE s \in [1..Cardinality(S) -> S] :
    /\ SeqToSet(s) = S
    /\ \A i \in 1..(Len(s) - 1) : StrLess(s[i], s[i+1])

\* dedupe_packages: BTreeMap::into_values, in the order of the keys
dedupe_packages(pkgs) ==
  LET m == DedupeMap(pkgs)
      keys == SetToSortedStrings(DOMAIN m)
  IN [i \in 1..Len(keys) |-> m[keys[i]]]

\* a sort_by that leaves the list as it is
KeepOrder(s) == s

\* sort_by(|a, b| a.name.cmp(&b.name)): stable, by the bytes of the name
RECURSIVE InsertByName(_, _)
InsertByName(x, s) ==
  IF s = <<>> THEN <<x>>
  ELSE IF StrLeq(Head(s).name, x.name) THEN <<Head(s)>> \o InsertByName(x, Tail(s))
  ELSE <<x>> \o s

RECURSIVE SortByName(_)
SortByName(s) ==
  IF s = <<>> THEN <<>>
  ELSE InsertByName(s[Len(s)], SortByName(SubSeq(s, 1, Len(s) - 1)))

SortedByName(s) == \A i \in 1..(Len(s) - 1) : StrLeq(s[i].name, s[i+1].name)

normalize_package_identity(name) ==
  Replace(Replace(ToLower(Trim(name)), "-", "_"), ".", "_")

package_identity_key(name, version) ==
  normalize_package_identity(name) \o <<"=", "=">> \o Trim(version)

DistInfoExt == <<".", "d", "i", "s", "t", "-", "i", "n", "f", "o">>

\* lines 2437-2447: the identity keys a directory name gives (one or none)
DistInfoKeys(name) ==
  IF ~EndsWith(ToLower(name), DistInfoExt) THEN {}
  ELSE LET base == TrimEndMatches(name, DistInfoExt)
           i == RFind(base, "-")
       IN IF i > 1 /\ i < Len(base)
          THEN {package_identity_key(SubSeq(base, 1, i - 1),
                                     SubSeq(base, i + 1, Len(base)))}
          ELSE {}

\* installed_package_key_set: over the directories right in site-packages
installed_package_key_set(dir) ==
  UNION { DistInfoKeys(path[1]) :
            path \in {q \in DOMAIN dir : Len(q) = 1 /\ dir[q].kind = "dir"} }

(***************************************************************************)
(* ZIP archives                                                             *)
(***************************************************************************)
\* the components of an entry name
RECURSIVE SplitSlash(_, _)
SplitSlash(name, acc) ==
  IF name = <<>> THEN (IF acc = <<>> THEN <<>> ELSE <<acc>>)
  ELSE IF Head(name) = "/"
       THEN (IF acc = <<>> THEN <<>> ELSE <<acc>>) \o SplitSlash(Tail(name), <<>>)
       ELSE SplitSlash(Tail(name), Append(acc, Head(name)))

Components(name) == SplitSlash(name, <<>>)

DotDot == <<".", ".">>

\* the depth of ZipFile::enclosed_name after the components, -1 once it has
\* gone above the root
RECURSIVE EnclosedDepth(_, _)
EnclosedDepth(comps, depth) ==
  IF comps = <<>> THEN depth
  ELSE IF Head(comps) = DotDot
       THEN (IF depth = 0 THEN -1 ELSE EnclosedDepth(Tail(comps), depth - 1))
       ELSE EnclosedDepth(Tail(comps), depth + 1)

\* ZipFile::enclosed_name gives a path: the name is not absolute and does not
\* climb above the root
IsEnclosed(name) ==
  /\ name # <<>> => Head(name) # "/"
  /\ EnclosedDepth(Components(name), 0) >= 0

\* the path under site-packages that the joined path names
RECURSIVE ResolvePath(_, _)
ResolvePath(comps, acc) ==
  IF comps = <<>> THEN acc
  ELSE IF Head(comps) = DotDot
       THEN ResolvePath(Tail(comps), SubSeq(acc, 1, Len(acc) - 1))
       ELSE ResolvePath(Tail(comps), Append(acc, Head(comps)))

Entry(name, data) == [name |-> name, data |-> data]

\* the archives of the model: BodyA is the wheel of a 1, BodyB a wheel of
\* a-b 1 whose dist-info directory is named for version 1.0, BodyC an archive
\* whose second entry climbs out of the target
WheelA ==
  << Entry(<<"a", ".", "p", "y">>, 1),
     Entry(<<"a", "-", "1">> \o DistInfoExt \o <<"/", "M">>, 2) >>

WheelB ==
  << Entry(<<"a", "_", "b", "-", "1", ".", "0">> \o DistInfoExt \o <<"/">>, 0),
     Entry(<<"a", "b", ".", "p", "y">>, 3) >>

WheelC ==
  << Entry(<<"c", ".", "p", "y">>, 4),
     Entry(<<".", ".", "/", "e">>, 5) >>

\* ZipArchive::new: the entries of the content, or none when it is no archive
IsZip(data) == data \in Bodies

ZipEntries(data) ==
  IF data = BodyA THEN WheelA ELSE IF data = BodyB THEN WheelB ELSE WheelC

(***************************************************************************)
(* The resolver and the requirements of the model                           *)
(***************************************************************************)
PythonVersion == <<"3", ".", "1", "2">>

PkgA == Package(<<"a">>, <<"1">>, Url1, Sha256Hex(BodyA))
PkgAB == Package(<<"a", "-", "b">>, <<"1">>, Url2, Sha256Hex(BodyB))
PkgC == Package(<<"c">>, <<"1">>, Url3, <<>>)
\* the project of PkgAB under the other spelling of its name
PkgA_B == Package(<<"a", "_", "b">>, <<"1">>, Url2, Sha256Hex(BodyB))

\* another version of the project of PkgA, the one a report for f names
PkgA2 == Package(<<"a">>, <<"2">>, Url1, <<>>)

\* what pip's report lists for a requirement, when pip succeeds
PipReport(req) ==
  IF req = <<"a">> THEN <<PkgA>>
  ELSE IF req = <<"f">> THEN <<PkgA2>>
  ELSE IF req = <<"b">> THEN <<PkgAB>>
  ELSE IF req = <<"d">> THEN <<PkgAB, PkgA_B>>
  ELSE <<PkgC>>

\* the requirement lists install is called with
InstallInputs ==
  { <<>>, << <<" ">> >>, << <<"a">> >>, << <<"b">> >>, << <<"c">> >>,
    << <<"a">>, <<"b">> >>, << <<"b">>, <<" ", "a">> >> }

\* the requirement lists of the fan-out specification: one requirement whose
\* report names one project under two spellings
FanInputs == { << <<"d">> >> }

(***************************************************************************)
(* State                                                                    *)
(***************************************************************************)
VARIABLES
  blobs,        \* cas/blobs: path [xx, file] -> content, for the files there
  blobCreated,  \* history: path -> times a file was created or replaced there
  tmpFiles,     \* temp files under the CAS root: path [pid, stamp] -> content
  proc,         \* the process: [pid, calls, kills]
  task,         \* the workers: one record per worker
  solutions,    \* cas/solutions: solve key -> [complete, graph]
  persisted,    \* history: the solve keys save_solution has written in full
  site,         \* site-packages: path -> [kind, data]
  inst,         \* the thread that runs Installer::install
  calc,         \* the key specification: [base, reqs, pads, dups, key]
  manifest,     \* xe.toml of the working directory: the Config in it
  cmd,          \* the command that runs: its place and its locals
  txt,          \* the text specification: [x, fn, once, twice, step]
  merge,        \* the dedupe specification: [pkgs, out, done]
  prof          \* the profiler, the lines of its log and the spans alive

casVars == <<blobs, blobCreated, tmpFiles, proc, task>>
cmdVars == <<manifest, cmd, txt, merge, prof>>
instVars == <<solutions, persisted, site, inst, calc, cmdVars>>
vars == <<blobs, blobCreated, tmpFiles, proc, task, solutions, persisted, site,
          inst, calc, manifest, cmd, txt, merge, prof>>

Tasks == {1, 2}

None == <<>>

WhlExt == <<".", "w", "h", "l">>

\* Cas::blob_path
blob_path(sha) ==
  [ xx   |-> IF Len(sha) >= 2 THEN SubSeq(sha, 1, 2) ELSE <<"0", "0">>,
    file |-> sha \o WhlExt ]

\* tempfile_path_in: "<prefix>-<pid>-<stamp>.<ext>"
tempfile_path_in(pid, stamp) == [pid |-> pid, stamp |-> stamp]

\* item, entries and made belong to the worker's package in install; of the
\* install record, prev, redo, blobs0, wrote, cached and runs are history:
\* the requirements of the run before when it succeeded, the identity keys
\* the run before extracted when it failed in the fan-out for the same
\* requirements, the blobs at the start, a write to the site directory, the
\* solve key persisted at the start, and the count of runs
IdleTask ==
  [ pc |-> "idle", url |-> None, expected |-> None, resp |-> None,
    hasher |-> None, tmp |-> None, target |-> None, ret |-> None,
    err |-> None, item |-> 0, entries |-> None, made |-> {} ]

IdleInstall ==
  [ pc |-> "idle", reqs |-> None, norm |-> None, key |-> None,
    resolved |-> None, calls |-> 0, hit |-> FALSE, graph |-> None,
    plan |-> None, todo |-> {}, scanned |-> {}, installed |-> {},
    failed |-> FALSE, err |-> None, result |-> None,
    wrote |-> FALSE, blobs0 |-> {}, cached |-> FALSE, prev |-> None,
    redo |-> [on |-> FALSE, done |-> {}], runs |-> 0 ]

FileExists(dir, path) == path \in DOMAIN dir

WriteFile(dir, path, data) ==
  [q \in DOMAIN dir \cup {path} |-> IF q = path THEN data ELSE dir[q]]

RemoveFile(dir, path) == [q \in DOMAIN dir \ {path} |-> dir[q]]

\* history of a creation or replacement of the file at path: 1 after the
\* first, 2 after any later one
Created(hist, path) ==
  [q \in DOMAIN hist \cup {path} |->
     IF q = path THEN (IF q \in DOMAIN hist THEN 2 ELSE 1) ELSE hist[q]]

\* struct Config: [project].name, [python].version, [cache].mode,
\* [cache].global_dir, [venv].name, [settings].autovenv and [deps] (a set of
\* <<name, version>> pairs, one pair a name)
Config(name, version, mode, global_dir, venv, autovenv, deps) ==
  [ name |-> name, version |-> version, mode |-> mode,
    global_dir |-> global_dir, venv |-> venv, autovenv |-> autovenv,
    deps |-> deps ]

NoConfig == Config(<<>>, <<>>, <<>>, <<>>, <<>>, FALSE, {})

\* xe.toml: absent, a file that holds a Config, or what a failed
\* write left
NoManifest == [state |-> "absent", cfg |-> NoConfig]

\* no command runs: ensured is what ensure_runtime_for_project returned to
\* the command, count is the number of commands run, edits the number of
\* times the user has written the file
IdleCmd ==
  [ pc |-> "idle", kind |-> None, arg |-> None, cfg |-> NoConfig,
    given |-> NoConfig,
    changed |-> FALSE, venv_name |-> None, result |-> None, err |-> None,
    ensured |-> "none", count |-> 0, edits |-> 0 ]

\* no normalizer has been applied to the text x: step counts the applications
IdleTxt == [x |-> <<>>, fn |-> "none", once |-> <<>>, twice |-> <<>>, step |-> 0]

\* dedupe_packages has not been given a list
IdleMerge == [pkgs |-> <<>>, out |-> <<>>, done |-> FALSE]

\* no profiler, no event and no span
IdleProf ==
  [active |-> FALSE, events |-> <<>>, stack |-> <<>>, opened |-> 0,
   closed |-> <<>>, failing |-> FALSE, pc |-> "idle"]

IdleCalc ==
  [base |-> None, reqs |-> None, pads |-> None, dups |-> None, key |-> None]

\* an empty CAS root and an empty site directory
InitDisk ==
  /\ blobs = <<>>
  /\ blobCreated = <<>>
  /\ tmpFiles = <<>>
  /\ proc = [pid |-> 1, calls |-> 0, kills |-> 0]
  /\ task = [t \in Tasks |-> IdleTask]
  /\ solutions = <<>>
  /\ persisted = {}
  /\ site = <<>>
  /\ inst = IdleInstall
  /\ manifest = NoManifest
  /\ cmd = IdleCmd
  /\ prof = IdleProf

InitCas == InitDisk /\ calc = IdleCalc /\ txt = IdleTxt /\ merge = IdleMerge

(***************************************************************************)
(* Cas::store_blob_from_url, one action per step of the call                *)
(***************************************************************************)
\* the caller enters store_blob_from_url(url, expected_sha256)
Call(t, url, expected) ==
  /\ task[t].pc = "idle"
  /\ proc.calls < MaxCalls
  /\ proc' = [proc EXCEPT !.calls = @ + 1]
  /\ task' = [task EXCEPT ![t] = [IdleTask EXCEPT
                !.pc = "fast", !.url = url, !.expected = expected]]
  /\ UNCHANGED <<blobs, blobCreated, tmpFiles>>
  /\ UNCHANGED instVars

\* a fast path that never finds the blob
FastPathMiss(expected, dir) == FALSE

\* lines 2596-2601: the fast path
FastPathHit(expected, dir) ==
  Trim(expected) # <<>> /\ FileExists(dir, blob_path(expected))

FastPath(t) ==
  /\ task[t].pc = "fast"
  /\ IF FastPathHit(task[t].expected, blobs)
     THEN task' = [task EXCEPT ![t].pc = "ret_ok",
                               ![t].ret = blob_path(task[t].expected)]
     ELSE task' = [task EXCEPT ![t].pc = "send"]
  /\ UNCHANGED <<blobs, blobCreated, tmpFiles, proc>>
  /\ UNCHANGED instVars

\* lines 2603-2613: the GET; the request fails, or answers with a bad
\* status, or with a body
Send(t) ==
  /\ task[t].pc = "send"
  /\ \/ task' = [task EXCEPT ![t].pc = "ret_err",
                             ![t].err = <<"failed to download">>]
     \/ task' = [task EXCEPT ![t].pc = "ret_err",
                             ![t].err = <<"download failed">>]
     \/ \E body \in Serves(task[t].url) :
          task' = [task EXCEPT ![t].pc = "create_tmp", ![t].resp = body]
  /\ UNCHANGED <<blobs, blobCreated, tmpFiles, proc>>
  /\ UNCHANGED instVars

\* The nanosecond stamps SystemTime::now can give worker t: a stamp of its
\* own (named t), or the stamp another worker read for the temp file it
\* still holds, when both read the clock within the same tick.
Stamps(t) == {t} \cup {task[u].tmp.stamp : u \in {v \in Tasks : task[v].tmp # None}}

\* lines 2615-2619: the temp file is created, or truncated when it is there
CreateTmp(t) ==
  /\ task[t].pc = "create_tmp"
  /\ \E stamp \in Stamps(t) :
       LET path == tempfile_path_in(proc.pid, stamp) IN
       /\ tmpFiles' = WriteFile(tmpFiles, path, <<>>)
       /\ task' = [task EXCEPT ![t].pc = "read", ![t].tmp = path,
                               ![t].hasher = <<>>]
  /\ UNCHANGED <<blobs, blobCreated, proc>>
  /\ UNCHANGED instVars

\* lines 2621-2630: one round of the loop: the read fails, or returns the
\* next chunk, which is hashed and written, or returns 0
ReadChunk(t) ==
  /\ task[t].pc = "read"
  /\ \/ /\ task[t].resp # <<>>
        /\ task' = [task EXCEPT ![t].pc = "ret_err",
                                ![t].err = <<"failed while downloading blob">>]
        /\ UNCHANGED tmpFiles
     \/ /\ task[t].resp # <<>>
        /\ task' = [task EXCEPT ![t].resp = Tail(@),
                                ![t].hasher = Append(@, Head(task[t].resp))]
        /\ tmpFiles' = IF FileExists(tmpFiles, task[t].tmp)
                       THEN WriteFile(tmpFiles, task[t].tmp,
                                      Append(tmpFiles[task[t].tmp], Head(task[t].resp)))
                       ELSE tmpFiles
     \/ /\ task[t].resp = <<>>
        /\ task' = [task EXCEPT ![t].pc = "verify"]
        /\ UNCHANGED tmpFiles
  /\ UNCHANGED <<blobs, blobCreated, proc>>
  /\ UNCHANGED instVars

\* the test of line 2634 with its first condition inverted
ChecksumMismatchInverted(expected, actual) ==
  Trim(expected) = <<>> /\ ~EqIgnoreAsciiCase(expected, actual)

\* line 2634
ChecksumMismatch(expected, actual) ==
  Trim(expected) # <<>> /\ ~EqIgnoreAsciiCase(expected, actual)

\* lines 2631-2641
Verify(t) ==
  /\ task[t].pc = "verify"
  /\ LET actual == Sha256Hex(task[t].hasher) IN
     IF ChecksumMismatch(task[t].expected, actual)
     THEN /\ tmpFiles' = RemoveFile(tmpFiles, task[t].tmp)
          /\ task' = [task EXCEPT ![t].pc = "ret_err",
                        ![t].err = <<"checksum mismatch", task[t].expected, actual>>]
     ELSE /\ task' = [task EXCEPT ![t].pc = "exists",
                                  ![t].target = blob_path(actual)]
          /\ UNCHANGED tmpFiles
  /\ UNCHANGED <<blobs, blobCreated, proc>>
  /\ UNCHANGED instVars

\* lines 2643-2647
CheckExists(t) ==
  /\ task[t].pc = "exists"
  /\ IF FileExists(blobs, task[t].target)
     THEN /\ tmpFiles' = RemoveFile(tmpFiles, task[t].tmp)
          /\ task' = [task EXCEPT ![t].pc = "ret_ok", ![t].ret = task[t].target]
     ELSE /\ task' = [task EXCEPT ![t].pc = "rename"]
          /\ UNCHANGED tmpFiles
  /\ UNCHANGED <<blobs, blobCreated, proc>>
  /\ UNCHANGED instVars

\* lines 2648-2652: rename into place, which replaces a file that is there;
\* it fails when the temp file is gone, and may fail for the file system's
\* own reasons
Rename(t) ==
  /\ task[t].pc = "rename"
  /\ \/ /\ FileExists(tmpFiles, task[t].tmp)
        /\ blobs' = WriteFile(blobs, task[t].target, tmpFiles[task[t].tmp])
        /\ blobCreated' = Created(blobCreated, task[t].target)
        /\ tmpFiles' = RemoveFile(tmpFiles, task[t].tmp)
        /\ task' = [task EXCEPT ![t].pc = "ret_ok", ![t].ret = task[t].target]
     \/ /\ task' = [task EXCEPT ![t].pc = "copy"]
        /\ UNCHANGED <<blobs, blobCreated, tmpFiles>>
  /\ UNCHANGED proc
  /\ UNCHANGED instVars

\* line 2654, fs::copy: the source is opened, then the target is created or
\* truncated
CopyOpen(t) ==
  /\ task[t].pc = "copy"
  /\ IF FileExists(tmpFiles, task[t].tmp)
     THEN /\ blobs' = WriteFile(blobs, task[t].target, <<>>)
          /\ blobCreated' = Created(blobCreated, task[t].target)
          /\ task' = [task EXCEPT ![t].pc = "copy_write"]
     ELSE /\ task' = [task EXCEPT ![t].pc = "ret_err",
                                  ![t].err = <<"failed to store blob">>]
          /\ UNCHANGED <<blobs, blobCreated>>
  /\ UNCHANGED <<tmpFiles, proc>>
  /\ UNCHANGED instVars

\* lines 2654-2656, fs::copy: the content is written, or the write fails and
\* leaves what it wrote; then the temp file is removed
CopyWrite(t) ==
  /\ task[t].pc = "copy_write"
  /\ \/ /\ blobs' = WriteFile(blobs, task[t].target,
                       IF FileExists(tmpFiles, task[t].tmp)
                       THEN tmpFiles[task[t].tmp] ELSE <<>>)
        /\ tmpFiles' = RemoveFile(tmpFiles, task[t].tmp)
        /\ task' = [task EXCEPT ![t].pc = "ret_ok", ![t].ret = task[t].target]
     \/ /\ task' = [task EXCEPT ![t].pc = "ret_err",
                                ![t].err = <<"failed to store blob">>]
        /\ UNCHANGED <<blobs, tmpFiles>>
  /\ UNCHANGED <<blobCreated, proc>>
  /\ UNCHANGED instVars

\* the call returns to its caller
Return(t) ==
  /\ task[t].pc \in {"ret_ok", "ret_err"}
  /\ task' = [task EXCEPT ![t] = IdleTask]
  /\ UNCHANGED <<blobs, blobCreated, tmpFiles, proc>>
  /\ UNCHANGED instVars

\* the process is killed: its workers are gone, the files stay; the next
\* process has another pid
Kill ==
  /\ proc.kills < MaxKills
  /\ \E t \in Tasks : task[t].pc # "idle"
  /\ proc' = [proc EXCEPT !.pid = @ + 1, !.kills = @ + 1]
  /\ task' = [t \in Tasks |-> IdleTask]
  /\ UNCHANGED <<blobs, blobCreated, tmpFiles>>
  /\ UNCHANGED instVars


NextCas ==
  \/ \E t \in Tasks, url \in Urls, expected \in ExpectedHashes : Call(t, url, expected)
  \/ \E t \in Tasks : FastPath(t)
  \/ \E t \in Tasks : Send(t)
  \/ \E t \in Tasks : CreateTmp(t)
  \/ \E t \in Tasks : ReadChunk(t)
  \/ \E t \in Tasks : Verify(t)
  \/ \E t \in Tasks : CheckExists(t)
  \/ \E t \in Tasks : Rename(t)
  \/ \E t \in Tasks : CopyOpen(t)
  \/ \E t \in Tasks : CopyWrite(t)
  \/ \E t \in Tasks : Return(t)
  \/ Kill

SpecCas == InitCas /\ [][NextCas]_vars

(***************************************************************************)
(* Installer::install: the calling thread                                   *)
(***************************************************************************)
SolveGraph(python_version, requirements, packages) ==
  [ python_version |-> python_version, requirements |-> requirements,
    packages |-> packages ]

\* lines 2317-2322: the requirements are normalized; none left returns an
\* empty list at once; else the solve key is computed
StartInstall(reqs) ==
  /\ inst.pc \in {"idle", "done_ok", "done_err"}
  /\ inst.runs < MaxRuns
  /\ LET norm == normalize_requirements(reqs)
         key == solve_key(PythonVersion, norm)
         run == [IdleInstall EXCEPT
                   !.reqs = reqs, !.norm = norm, !.blobs0 = DOMAIN blobs,
                   !.runs = inst.runs + 1,
                   !.prev = IF inst.pc = "done_ok" THEN inst.reqs ELSE None,
                   !.redo = IF inst.pc = "done_err" /\ inst.failed
                               /\ inst.reqs = reqs
                            THEN [on |-> TRUE,
                                  done |-> inst.installed \ inst.scanned]
                            ELSE [on |-> FALSE, done |-> {}]]
     IN IF norm = <<>>
        THEN inst' = [run EXCEPT !.pc = "done_ok", !.result = <<>>]
        ELSE inst' = [run EXCEPT !.pc = "load", !.key = key,
                                 !.cached = key \in persisted]
  /\ UNCHANGED <<casVars, solutions, persisted, site, calc, cmdVars>>

\* load_solution, line 2673, never finding the file
SolutionMissing(dir, key) == TRUE

\* load_solution, line 2673: there is no file for the key
SolutionAbsent(dir, key) == ~FileExists(dir, key)

\* what resolve_requirement gave for a requirement of the fan-out
Pending == [st |-> "pending", pkgs |-> <<>>]
Failed == [st |-> "failed", pkgs |-> <<>>]
Resolved(pkgs) == [st |-> "ok", pkgs |-> pkgs]

\* line 2323, load_solution: absent, or the parsed graph, or a parse error
LoadSolution ==
  /\ inst.pc = "load"
  /\ IF SolutionAbsent(solutions, inst.key)
     THEN inst' = [inst EXCEPT !.pc = "resolve",
                     !.resolved = [i \in 1..Len(inst.norm) |-> Pending]]
     ELSE IF solutions[inst.key].complete
     THEN inst' = [inst EXCEPT !.pc = "scan", !.hit = TRUE,
                     !.graph = solutions[inst.key].graph]
     ELSE inst' = [inst EXCEPT !.pc = "done_err", !.err = <<"failed to parse">>]
  /\ UNCHANGED <<casVars, solutions, persisted, site, calc, cmdVars>>

\* lines 2326-2328: resolve_requirement for one requirement of the fan-out:
\* pip fails, or reports the packages
Resolve(i) ==
  /\ inst.pc = "resolve"
  /\ i \in DOMAIN inst.resolved
  /\ inst.resolved[i] = Pending
  /\ \/ inst' = [inst EXCEPT !.resolved[i] = Failed, !.calls = @ + 1]
     \/ inst' = [inst EXCEPT !.resolved[i] = Resolved(PipReport(inst.norm[i])),
                             !.calls = @ + 1]
  /\ UNCHANGED <<casVars, solutions, persisted, site, calc, cmdVars>>

\* the answers in the order of the requirements, flattened
RECURSIVE Flatten(_)
Flatten(results) ==
  IF results = <<>> THEN <<>>
  ELSE Head(results).pkgs \o Flatten(Tail(results))

\* a collect that looks at the first answer only
FirstFailed(results) == results[1] = Failed

\* line 2329, collect::<Result<..>>()?: some requirement failed
AnyFailed(results) == \E i \in DOMAIN results : results[i] = Failed

\* lines 2329-2339: the fan-out is over: with a failure install fails; else
\* the answers are flattened and deduplicated into the graph
ResolveDone ==
  /\ inst.pc = "resolve"
  /\ \/ AnyFailed(inst.resolved)
     \/ \A i \in DOMAIN inst.resolved : inst.resolved[i] # Pending
  /\ IF AnyFailed(inst.resolved)
     THEN inst' = [inst EXCEPT !.pc = "done_err",
                     !.err = <<"dependency resolution failed">>]
     ELSE inst' = [inst EXCEPT !.pc = "save",
                     !.graph = SolveGraph(PythonVersion, inst.norm,
                                 dedupe_packages(Flatten(inst.resolved)))]
  /\ UNCHANGED <<casVars, solutions, persisted, site, calc, cmdVars>>

\* save_solution, line 2667: File::create makes or truncates the file
SaveCreate ==
  /\ inst.pc = "save"
  /\ solutions' = WriteFile(solutions, inst.key, [complete |-> FALSE, graph |-> None])
  /\ inst' = [inst EXCEPT !.pc = "save_write"]
  /\ UNCHANGED <<casVars, persisted, site, calc, cmdVars>>

\* save_solution, line 2668: the graph is written, or the write fails and
\* leaves a part of it
SaveWrite ==
  /\ inst.pc = "save_write"
  /\ \/ /\ solutions' = WriteFile(solutions, inst.key,
                                  [complete |-> TRUE, graph |-> inst.graph])
        /\ persisted' = persisted \cup {inst.key}
        /\ inst' = [inst EXCEPT !.pc = "scan"]
     \/ /\ inst' = [inst EXCEPT !.pc = "done_err", !.err = <<"failed to write">>]
        /\ UNCHANGED <<solutions, persisted>>
  /\ UNCHANGED <<casVars, site, calc, cmdVars>>

\* lines 2344-2355: the plan sorted by name, the site directory, the scan
Scan ==
  /\ inst.pc = "scan"
  /\ LET plan == SortByName(inst.graph.packages)
         found == installed_package_key_set(site)
     IN inst' = [inst EXCEPT !.pc = "fanout", !.plan = plan,
                   !.todo = 1..Len(plan), !.scanned = found, !.installed = found]
  /\ UNCHANGED <<casVars, solutions, persisted, site, calc, cmdVars>>

(***************************************************************************)
(* Installer::install: the workers of the extraction fan-out                *)
(***************************************************************************)
\* the check of lines 2358-2363 left out
NeverInstalled(installed, key) == FALSE

\* lines 2358-2363: the first critical section
AlreadyInstalled(installed, key) == key \in installed

\* lines 2357-2370: a worker takes a package of the plan (the worker is
\* named by the place of its package in the plan): it is skipped when its key
\* is in the installed set or it has no url; else the worker enters
\* store_blob_from_url
StartTask(t, i) ==
  /\ inst.pc = "fanout"
  /\ ~inst.failed
  /\ task[t].pc = "idle"
  /\ i \in inst.todo
  /\ LET pkg == inst.plan[i]
         key == package_identity_key(pkg.name, pkg.version)
     IN IF AlreadyInstalled(inst.installed, key) \/ Trim(pkg.download_url) = <<>>
        THEN UNCHANGED task
        ELSE task' = [task EXCEPT ![t] = [IdleTask EXCEPT
                        !.pc = "fast", !.url = pkg.download_url,
                        !.expected = pkg.hash, !.item = i]]
  /\ inst' = [inst EXCEPT !.todo = @ \ {i}]
  /\ UNCHANGED <<blobs, blobCreated, tmpFiles, proc, solutions, persisted, site, calc, cmdVars>>

\* lines 2453-2456 of install_wheel_blob: the blob is opened and parsed
OpenWheel(t) ==
  /\ inst.pc = "fanout"
  /\ task[t].pc = "ret_ok"
  /\ IF FileExists(blobs, task[t].ret) /\ IsZip(blobs[task[t].ret])
     THEN task' = [task EXCEPT ![t].pc = "extract",
                     ![t].entries = ZipEntries(blobs[task[t].ret])]
     ELSE task' = [task EXCEPT ![t].pc = "ret_err",
                     ![t].err = <<"failed to parse">>]
  /\ UNCHANGED <<blobs, blobCreated, tmpFiles, proc, instVars>>

IsDirEntry(name) == name # <<>> /\ name[Len(name)] = "/"

Prefixes(path) == {SubSeq(path, 1, n) : n \in 1..Len(path)}

\* fs::create_dir_all can make the path: nothing on the way is a file
CanMkdirAll(dir, path) ==
  \A q \in Prefixes(path) : FileExists(dir, q) => dir[q].kind = "dir"

\* fs::create_dir_all
MkdirAll(dir, path) ==
  [q \in DOMAIN dir \cup Prefixes(path) |->
     IF FileExists(dir, q) THEN dir[q] ELSE [kind |-> "dir", data |-> 0]]

\* line 2461: the error for an entry enclosed_name refuses
UnsafeEntryError == <<"unsafe wheel entry path">>

\* lines 2458-2475: one entry of the archive
ExtractEntry(t) ==
  /\ inst.pc = "fanout"
  /\ task[t].pc = "extract"
  /\ task[t].entries # <<>>
  /\ LET e == Head(task[t].entries)
         out_path == ResolvePath(Components(e.name), <<>>)
         parent == SubSeq(out_path, 1, Len(out_path) - 1)
         fail(msg) == task' = [task EXCEPT ![t].pc = "ret_err", ![t].err = <<msg>>]
         next == task' = [task EXCEPT ![t].entries = Tail(@),
                                      ![t].made = @ \cup {out_path}]
     IN
     IF ~IsEnclosed(e.name)
     THEN /\ task' = [task EXCEPT ![t].pc = "ret_err", ![t].err = UnsafeEntryError]
          /\ UNCHANGED <<site, inst>>
     ELSE IF IsDirEntry(e.name)
     THEN IF CanMkdirAll(site, out_path)
          THEN /\ next
               /\ site' = MkdirAll(site, out_path)
               /\ inst' = [inst EXCEPT !.wrote = @ \/ site' # site]
          ELSE fail("failed to create") /\ UNCHANGED <<site, inst>>
     ELSE IF ~CanMkdirAll(site, parent)
             \/ (FileExists(site, out_path) /\ site[out_path].kind = "dir")
     THEN fail("failed to create") /\ UNCHANGED <<site, inst>>
     ELSE /\ inst' = [inst EXCEPT !.wrote = TRUE]
          /\ \/ /\ next
                /\ site' = WriteFile(MkdirAll(site, parent), out_path,
                                     [kind |-> "file", data |-> e.data])
             \/ /\ task' = [task EXCEPT ![t].pc = "ret_err",
                              ![t].err = <<"failed to write">>,
                              ![t].made = @ \cup {out_path}]
                /\ site' = WriteFile(MkdirAll(site, parent), out_path,
                                     [kind |-> "file", data |-> 0])
  /\ UNCHANGED <<blobs, blobCreated, tmpFiles, proc, solutions, persisted, calc, cmdVars>>

\* lines 2372-2376: the archive is extracted; the second critical section
InsertKey(t) ==
  /\ inst.pc = "fanout"
  /\ task[t].pc = "extract"
  /\ task[t].entries = <<>>
  /\ LET pkg == inst.plan[task[t].item] IN
     inst' = [inst EXCEPT !.installed =
                @ \cup {package_identity_key(pkg.name, pkg.version)}]
  /\ task' = [task EXCEPT ![t] = IdleTask]
  /\ UNCHANGED <<blobs, blobCreated, tmpFiles, proc, solutions, persisted, site, calc, cmdVars>>

\* the worker's closure returns its error: try_for_each takes no more
\* packages
TaskFail(t) ==
  /\ inst.pc = "fanout"
  /\ task[t].pc = "ret_err"
  /\ inst' = [inst EXCEPT !.failed = TRUE,
                          !.err = IF inst.failed THEN @ ELSE task[t].err]
  /\ task' = [task EXCEPT ![t] = IdleTask]
  /\ UNCHANGED <<blobs, blobCreated, tmpFiles, proc, solutions, persisted, site, calc, cmdVars>>

\* lines 2377-2380: the workers have joined: the error, or the packages
\* sorted by name
FanoutDone ==
  /\ inst.pc = "fanout"
  /\ \A t \in Tasks : task[t].pc = "idle"
  /\ inst.failed \/ inst.todo = {}
  /\ IF inst.failed
     THEN inst' = [inst EXCEPT !.pc = "done_err"]
     ELSE inst' = [inst EXCEPT !.pc = "done_ok",
                     !.result = SortByName(inst.graph.packages)]
  /\ UNCHANGED <<casVars, solutions, persisted, site, calc, cmdVars>>

Init == InitCas

\* a step of an install that has started
InstallStep ==
  \/ LoadSolution
  \/ \E i \in 1..2 : Resolve(i)
  \/ ResolveDone
  \/ SaveCreate
  \/ SaveWrite
  \/ Scan
  \/ \E t \in Tasks : StartTask(t, t)
  \/ \E t \in Tasks : inst.pc = "fanout" /\ FastPath(t)
  \/ \E t \in Tasks : inst.pc = "fanout" /\ Send(t)
  \/ \E t \in Tasks : inst.pc = "fanout" /\ CreateTmp(t)
  \/ \E t \in Tasks : inst.pc = "fanout" /\ ReadChunk(t)
  \/ \E t \in Tasks : inst.pc = "fanout" /\ Verify(t)
  \/ \E t \in Tasks : inst.pc = "fanout" /\ CheckExists(t)
  \/ \E t \in Tasks : inst.pc = "fanout" /\ Rename(t)
  \/ \E t \in Tasks : inst.pc = "fanout" /\ CopyOpen(t)
  \/ \E t \in Tasks : inst.pc = "fanout" /\ CopyWrite(t)
  \/ \E t \in Tasks : OpenWheel(t)
  \/ \E t \in Tasks : ExtractEntry(t)
  \/ \E t \in Tasks : InsertKey(t)
  \/ \E t \in Tasks : TaskFail(t)
  \/ FanoutDone

Next ==
  \/ \E reqs \in InstallInputs : StartInstall(reqs)
  \/ InstallStep

Spec == Init /\ [][Next]_vars

\* installs of the requirement lists of FanInputs
NextFan ==
  \/ \E reqs \in FanInputs : StartInstall(reqs)
  \/ InstallStep

SpecFan == Init /\ [][NextFan]_vars

\* the requirement lists of the merge specification: two requirements, each
\* resolved by its own run of pip, whose reports name two versions of a project
MergeInputs == { << <<"a">>, <<"f">> >> }

NextMerge ==
  \/ \E reqs \in MergeInputs : StartInstall(reqs)
  \/ InstallStep

SpecMerge == Init /\ [][NextMerge]_vars

(***************************************************************************)
(* install_wheel_blob on its own: the entries of the archive are drawn at   *)
(* the start                                                                *)
(***************************************************************************)
\* entries in the archive a worker extracts
MaxEntries == 2

\* an entry of an archive with its type: link says the entry is a symbolic
\* link, and then data is the target the link names
WheelEntry(name, data, link) == [name |-> name, data |-> data, link |-> link]

\* a file, an absolute path, a path that climbs out of the target, a path with
\* a ".." component that stays inside it, a directory, a symbolic link
WheelEntries ==
  { WheelEntry(<<"a">>, 1, FALSE),
    WheelEntry(<<"/", "a">>, 2, FALSE),
    WheelEntry(<<".", ".", "/", "a">>, 3, FALSE),
    WheelEntry(<<"d", "/", ".", ".", "/", "a">>, 4, FALSE),
    WheelEntry(<<"d", "/">>, 0, FALSE),
    WheelEntry(<<"l">>, 5, TRUE) }

EntryLists == UNION {[1..n -> WheelEntries] : n \in 0..MaxEntries}

\* install has resolved c, saved the graph and stored the blob of c 1; its
\* worker has opened the blob as an archive
InitWheel ==
  LET norm == << <<"c">> >>
      key == solve_key(PythonVersion, norm)
      graph == SolveGraph(PythonVersion, norm, <<PkgC>>)
      path == blob_path(Sha256Hex(BodyC))
  IN /\ blobs = (path :> BodyC)
     /\ blobCreated = (path :> 1)
     /\ tmpFiles = <<>>
     /\ proc = [pid |-> 1, calls |-> 0, kills |-> 0]
     /\ solutions = (key :> [complete |-> TRUE, graph |-> graph])
     /\ persisted = {key}
     /\ site = <<>>
     /\ inst = [IdleInstall EXCEPT !.pc = "fanout", !.reqs = norm,
                  !.norm = norm, !.key = key, !.calls = 1, !.graph = graph,
                  !.resolved = <<Resolved(<<PkgC>>)>>,
                  !.plan = <<PkgC>>, !.runs = 1]
     /\ \E es \in EntryLists :
          task = [t \in Tasks |->
                   IF t = 1
                   THEN [IdleTask EXCEPT !.pc = "extract", !.url = Url3,
                           !.hasher = BodyC, !.tmp = [pid |-> 1, stamp |-> 1],
                           !.target = path, !.ret = path, !.item = 1,
                           !.entries = es]
                   ELSE IdleTask]
     /\ manifest = NoManifest
     /\ cmd = IdleCmd
     /\ prof = IdleProf
     /\ calc = IdleCalc
     /\ txt = IdleTxt
     /\ merge = IdleMerge

NextWheel ==
  \/ ExtractEntry(1)
  \/ InsertKey(1)
  \/ TaskFail(1)
  \/ FanoutDone

SpecWheel == InitWheel /\ [][NextWheel]_vars

(***************************************************************************)
(* Installer::install in an environment that deletes the memoized graph    *)
(* and kills the process                                                   *)
(***************************************************************************)
\* the requirement lists of this specification
EnvInputs == { << <<"a">> >>, << <<"b">> >> }

\* between two installs the solution file of the last install is deleted;
\* the site directory stays
DeleteSolution ==
  /\ inst.pc = "done_ok"
  /\ inst.key # None
  /\ FileExists(solutions, inst.key)
  /\ solutions' = RemoveFile(solutions, inst.key)
  /\ persisted' = persisted \ {inst.key}
  /\ UNCHANGED <<casVars, site, inst, calc, cmdVars>>

\* the process is killed in an install: the install and its workers are
\* gone and every file stays as it is; killed in the fan-out, the install
\* ends as one that failed there
KillInstall ==
  /\ inst.pc \notin {"idle", "done_ok", "done_err"}
  /\ proc.kills < MaxKills
  /\ proc' = [proc EXCEPT !.pid = @ + 1, !.kills = @ + 1]
  /\ task' = [t \in Tasks |-> IdleTask]
  /\ inst' = [inst EXCEPT !.pc = "done_err", !.err = <<"killed">>,
                          !.failed = (inst.pc = "fanout")]
  /\ UNCHANGED <<blobs, blobCreated, tmpFiles, solutions, persisted, site, calc, cmdVars>>

NextEnv ==
  \/ \E reqs \in EnvInputs : StartInstall(reqs)
  \/ InstallStep
  \/ DeleteSolution
  \/ KillInstall

SpecEnv == Init /\ [][NextEnv]_vars

(***************************************************************************)
(* The solve key install computes (lines 2317-2322), as a function of the  *)
(* list it is given: from a list of requirements, the list is permuted and *)
(* its requirements are padded with white space, and the key is computed.  *)
(***************************************************************************)
\* the requirements of the key specification
KeyReqs == { <<"a">>, <<"b">>, <<"a", " ", "b">> }

\* the lists the key specification starts from
KeyInputs == UNION { [1..n -> KeyReqs] : n \in 1..MaxReqs }

WhiteSpace == {" ", "\t"}

InitKey ==
  /\ InitDisk
  /\ txt = IdleTxt
  /\ merge = IdleMerge
  /\ \E base \in KeyInputs :
       calc = [base |-> base, reqs |-> base, pads |-> 0, dups |-> 0,
               key |-> None]

\* two neighbours of the list change places
KeySwap(i) ==
  /\ i \in 1..(Len(calc.reqs) - 1)
  /\ calc' = [calc EXCEPT
                !.reqs = [calc.reqs EXCEPT ![i] = calc.reqs[i + 1],
                                           ![i + 1] = calc.reqs[i]],
                !.key = None]
  /\ UNCHANGED <<casVars, solutions, persisted, site, inst, cmdVars>>

\* a requirement gets a white-space character in front
KeyPadLeft(i, c) ==
  /\ i \in 1..Len(calc.reqs)
  /\ calc.pads < MaxPad
  /\ calc' = [calc EXCEPT !.reqs[i] = <<c>> \o @, !.pads = @ + 1, !.key = None]
  /\ UNCHANGED <<casVars, solutions, persisted, site, inst, cmdVars>>

\* a requirement gets a white-space character at its end
KeyPadRight(i, c) ==
  /\ i \in 1..Len(calc.reqs)
  /\ calc.pads < MaxPad
  /\ calc' = [calc EXCEPT !.reqs[i] = Append(@, c), !.pads = @ + 1, !.key = None]
  /\ UNCHANGED <<casVars, solutions, persisted, site, inst, cmdVars>>

\* lines 2317 and 2322: the key install computes for the list
KeyCompute ==
  /\ calc.key = None
  /\ calc' = [calc EXCEPT
                !.key = solve_key(PythonVersion, normalize_requirements(calc.reqs))]
  /\ UNCHANGED <<casVars, solutions, persisted, site, inst, cmdVars>>

NextKey ==
  \/ \E i \in 1..MaxReqs : KeySwap(i)
  \/ \E i \in 1..MaxReqs, c \in WhiteSpace : KeyPadLeft(i, c)
  \/ \E i \in 1..MaxReqs, c \in WhiteSpace : KeyPadRight(i, c)
  \/ KeyCompute

SpecKey == InitKey /\ [][NextKey]_vars

\* a requirement of the list is given once more
KeyRepeat(i) ==
  /\ i \in 1..Len(calc.reqs)
  /\ calc.dups < MaxDup
  /\ calc' = [calc EXCEPT !.reqs = Append(@, calc.reqs[i]), !.dups = @ + 1,
                          !.key = None]
  /\ UNCHANGED <<casVars, solutions, persisted, site, inst, cmdVars>>

\* the key specification with repeated requirements
NextNorm ==
  \/ NextKey
  \/ \E i \in 1..(MaxReqs + MaxDup) : KeyRepeat(i)

SpecNorm == InitKey /\ [][NextNorm]_vars

(***************************************************************************)
(* The command layer: xe.toml and the commands that load and save it.      *)
(***************************************************************************)

\* commands run one after the other
MaxCmds == 2
\* times the user writes xe.toml by hand
MaxEdits == 1
\* length of the texts given to the name normalizers
MaxLen == 3

default_python_version == <<"3", ".", "1", "2">>

default_cache_mode == <<"global-cas">>

xe_cache_dir == <<"~/.xe/cache">>

\* the file name of the working directory
DirName == <<"w", "d">>

new_default(project_dir) ==
  Config(project_dir, default_python_version, default_cache_mode, xe_cache_dir,
         <<>>, FALSE, {})

\* Config::normalize: a field that is blank after trimming gets its default
normalize(cfg, project_dir) ==
  [ cfg EXCEPT
      !.name = IF Trim(@) = <<>> THEN project_dir ELSE @,
      !.version = IF Trim(@) = <<>> THEN default_python_version ELSE @,
      !.mode = IF Trim(@) = <<>> THEN default_cache_mode ELSE @,
      !.global_dir = IF Trim(@) = <<>> THEN xe_cache_dir ELSE @ ]

\* str::split('.')
RECURSIVE SplitDot(_)
SplitDot(s) ==
  IF \A i \in 1..Len(s) : s[i] # "."
    THEN <<s>>
    ELSE LET i == CHOOSE k \in 1..Len(s) :
                    s[k] = "." /\ \A j \in 1..(k - 1) : s[j] # "."
         IN  <<SubSeq(s, 1, i - 1)>> \o SplitDot(SubSeq(s, i + 1, Len(s)))

\* str::parse::<u32> succeeds: digits, after an optional plus sign
ParsesU32(s) ==
  LET d == IF s # <<>> /\ s[1] = "+" THEN Tail(s) ELSE s
  IN  d # <<>> /\ \A i \in 1..Len(d) : d[i] \in SeqToSet(Digits)

\* parse_major_minor returns Ok
parse_major_minor(version) ==
  LET parts == SplitDot(version)
  IN  Len(parts) >= 2 /\ ParsesU32(parts[1]) /\ ParsesU32(parts[2])

normalize_dep_name(name) ==
  Replace(Replace(ToLower(Trim(name)), "_", "-"), ".", "-")

\* the part of a text before the first character of the set, all of it when
\* there is none
UpTo(s, stops) ==
  IF \A i \in 1..Len(s) : s[i] \notin stops
    THEN s
    ELSE SubSeq(s, 1, (CHOOSE k \in 1..Len(s) :
                         s[k] \in stops /\ \A j \in 1..(k - 1) : s[j] \notin stops) - 1)

\* requirement_to_dep_name: None for a requirement without a name
requirement_to_dep_name(requirement) ==
  LET name == Trim(UpTo(UpTo(Trim(requirement), {"["}),
                        {" ", "<", ">", "=", "!", "~", ";"}))
  IN  IF name = <<>> THEN None ELSE normalize_dep_name(name)

\* the characters normalize_venv_name keeps
RECURSIVE KeepSlugChars(_)
KeepSlugChars(s) ==
  IF s = <<>> THEN <<>>
  ELSE IF s[1] \in SeqToSet(Lower) \cup SeqToSet(Digits) \cup {"-"}
         THEN <<s[1]>> \o KeepSlugChars(Tail(s))
         ELSE KeepSlugChars(Tail(s))

\* str::trim_matches('-')
RECURSIVE TrimStartMatches(_, _)
TrimStartMatches(s, c) ==
  IF s # <<>> /\ s[1] = c THEN TrimStartMatches(Tail(s), c) ELSE s

TrimMatches(s, c) == TrimEndMatches(TrimStartMatches(s, c), <<c>>)

\* normalize_venv_name without its to_lowercase
normalize_venv_name_keep_case(name) ==
  TrimMatches(KeepSlugChars(
    Replace(Replace(Trim(name), " ", "-"), "_", "-")), "-")

\* the steps of normalize_venv_name in another order: the hyphens at the
\* ends go before the characters outside the slug alphabet do
normalize_venv_name_trim_first(name) ==
  KeepSlugChars(TrimMatches(
    Replace(Replace(ToLower(Trim(name)), " ", "-"), "_", "-"), "-"))

normalize_venv_name(name) ==
  TrimMatches(KeepSlugChars(
    Replace(Replace(ToLower(Trim(name)), " ", "-"), "_", "-")), "-")

\* HashMap::insert on [deps]
DepsInsert(deps, name, version) ==
  {d \in deps : d[1] # name} \cup {<<name, version>>}

RECURSIVE DepsInsertRequested(_, _)
DepsInsertRequested(deps, reqs) ==
  IF reqs = <<>> THEN deps
  ELSE LET dep_name == requirement_to_dep_name(reqs[1])
       IN  DepsInsertRequested(
             IF dep_name = None THEN deps ELSE DepsInsert(deps, dep_name, <<"*">>),
             Tail(reqs))

RECURSIVE DepsInsertResolved(_, _)
DepsInsertResolved(deps, resolved) ==
  IF resolved = <<>> THEN deps
  ELSE DepsInsertResolved(
         DepsInsert(deps, normalize_dep_name(resolved[1].name), resolved[1].version),
         Tail(resolved))

\* the rest of a write that failed after the file was truncated
TornManifest == [state |-> "torn", cfg |-> NoConfig]

ManifestOf(cfg) == [state |-> "file", cfg |-> cfg]

\* save_project: the file holds the normalized clone of cfg
save_project(cfg) == ManifestOf(normalize(cfg, DirName))

\* fs::write either writes the whole file, fails before it opened it, or
\* fails after it truncated it
SaveOutcomes == {"ok", "fail", "torn"}

Written(cfg, outcome) ==
  CASE outcome = "ok"   -> save_project(cfg)
    [] outcome = "fail" -> manifest
    [] OTHER            -> TornManifest

\* get_preferred_python_version, with no global default configured
get_preferred_python_version ==
  IF manifest.state = "file"
     /\ Trim(normalize(manifest.cfg, DirName).version) # <<>>
    THEN normalize(manifest.cfg, DirName).version
    ELSE default_python_version

\* ensure_runtime_for_project up to the choice of the environment: the
\* configuration it leaves in cfg, the flag config_changed and venv_name
ensure_runtime_flag_never(cfg) ==
  LET version == IF Trim(cfg.version) = <<>>
                   THEN get_preferred_python_version ELSE cfg.version
      withVersion == [cfg EXCEPT !.version = version]
      trimmed == Trim(cfg.venv)
      name0 == IF Trim(cfg.name) = <<>> THEN DirName ELSE Trim(cfg.name)
      name1 == normalize_venv_name(name0)
      name == IF name1 = <<>> THEN <<"d", "e", "f", "a", "u", "l", "t">> ELSE name1
      auto == <<"a", "u", "t", "o", "-">> \o name
  IN  IF trimmed = <<>> /\ cfg.autovenv
        THEN [cfg |-> [withVersion EXCEPT !.venv = auto],
              config_changed |-> FALSE, venv_name |-> auto]
        ELSE [cfg |-> withVersion, config_changed |-> FALSE, venv_name |-> trimmed]

ensure_runtime_for_project(cfg) ==
  LET version == IF Trim(cfg.version) = <<>>
                   THEN get_preferred_python_version ELSE cfg.version
      withVersion == [cfg EXCEPT !.version = version]
      trimmed == Trim(cfg.venv)
      name0 == IF Trim(cfg.name) = <<>> THEN DirName ELSE Trim(cfg.name)
      name1 == normalize_venv_name(name0)
      name == IF name1 = <<>> THEN <<"d", "e", "f", "a", "u", "l", "t">> ELSE name1
      auto == <<"a", "u", "t", "o", "-">> \o name
  IN  IF trimmed = <<>> /\ cfg.autovenv
        THEN [cfg |-> [withVersion EXCEPT !.venv = auto],
              config_changed |-> TRUE, venv_name |-> auto]
        ELSE [cfg |-> withVersion, config_changed |-> FALSE, venv_name |-> trimmed]

\* what the user may write into xe.toml by hand
MyTool == <<" ", "M", "y", " ", "T", "o", "o", "l", "_", "v", "2", " ">>

ProjectNames == {<<>>, MyTool, <<"+">>}

Versions == {<<>>, <<" ">>, default_python_version, <<"a", "b", "c">>}

VenvNames == {<<>>, <<"e">>}

HandWritten ==
  { Config(n, v, <<>>, <<>>, e, a, d) :
      n \in ProjectNames, v \in {<<>>, default_python_version, <<"a", "b", "c">>},
      e \in VenvNames, a \in BOOLEAN, d \in {{}, {<<<<"a">>, <<"*">>>>}} }

\* the commands, and the arguments they are run with
\* import reads a requirements file (import_txt) or another xe.toml
\* (import_toml)
Installing == {"add", "lock", "sync", "import_txt", "import_toml"}
Recording == {"add", "lock", "import_txt", "import_toml"}
Requesting == {"add", "import_txt"}
Editing == {"use", "autovenv", "venv_unset"}
Kinds == Installing \cup Editing \cup {"init", "list"}

Args(kind) ==
  CASE kind \in Requesting -> { << <<"a">> >>, << <<"A", "_", "b">> >> }
    [] kind \in {"init", "use"} -> Versions
    [] kind = "autovenv" -> {TRUE, FALSE}
    [] OTHER             -> {None}

\* what install returns: an error, or the sorted list of what it resolved
InstallResults ==
  { [ok |-> FALSE, resolved |-> <<>>],
    [ok |-> TRUE, resolved |-> <<>>],
    [ok |-> TRUE, resolved |-> SortByName(dedupe_packages(<<PkgAB, PkgA>>))] }

\* the ? after install(...): the command returns the error
ResultNeverErr(result) == FALSE

ResultIsErr(result) == ~result.ok

Running == cmd.pc \notin {"idle", "done_ok", "done_err"}

\* the user writes xe.toml between two commands
UserWrites(cfg) ==
  /\ ~Running
  /\ cmd.edits < MaxEdits
  /\ manifest' = ManifestOf(cfg)
  /\ cmd' = [IdleCmd EXCEPT !.count = cmd.count, !.edits = cmd.edits + 1]
  /\ UNCHANGED <<casVars, solutions, persisted, site, inst, calc, txt, merge, prof>>

\* a command starts
CmdStart(kind, arg) ==
  /\ ~Running
  /\ cmd.count < MaxCmds
  /\ cmd' = [IdleCmd EXCEPT !.pc = IF kind = "init" THEN "init"
                                   ELSE IF kind = "use" THEN "install_python"
                                   ELSE "load",
                            !.kind = kind, !.arg = arg,
                            !.count = cmd.count + 1, !.edits = cmd.edits]
  /\ UNCHANGED <<manifest, casVars, solutions, persisted, site, inst, calc, txt, merge, prof>>

CmdFail(err) == cmd' = [cmd EXCEPT !.pc = "done_err", !.err = err]

\* cmd_init: the version of -p, or the preferred one when -p is empty, goes
\* into a default Config and the Config is saved; a Python that cannot be
\* installed is a warning
CmdInit ==
  /\ cmd.pc = "init"
  /\ LET version == IF cmd.arg = <<>> THEN get_preferred_python_version ELSE cmd.arg
         cfg == [new_default(DirName) EXCEPT !.version = version]
     IN  cmd' = [cmd EXCEPT !.pc = "save", !.cfg = cfg]
  /\ UNCHANGED <<manifest, casVars, solutions, persisted, site, inst, calc, txt, merge, prof>>

\* cmd_use: pm.install(&version)? needs a version that parses and a Python
\* that can be installed
InstallPython(installed) ==
  /\ cmd.pc = "install_python"
  /\ IF parse_major_minor(cmd.arg) /\ installed
       THEN cmd' = [cmd EXCEPT !.pc = "load"]
       ELSE CmdFail("python")
  /\ UNCHANGED <<manifest, casVars, solutions, persisted, site, inst, calc, txt, merge, prof>>

\* load_or_create_project: a default Config is saved when there is no file,
\* the file is parsed and normalized when there is one
LoadOrCreate ==
  /\ cmd.pc = "load"
  /\ LET next == IF cmd.kind \in Editing THEN "edit" ELSE "ensure"
     IN  CASE manifest.state = "absent" ->
                \E outcome \in SaveOutcomes :
                  /\ manifest' = Written(new_default(DirName), outcome)
                  /\ IF outcome = "ok"
                       THEN cmd' = [cmd EXCEPT !.pc = next,
                                               !.cfg = new_default(DirName),
                                               !.given = new_default(DirName)]
                       ELSE CmdFail("save")
           [] manifest.state = "torn" ->
                /\ CmdFail("parse")
                /\ UNCHANGED manifest
           [] OTHER ->
                /\ cmd' = [cmd EXCEPT !.pc = next,
                                      !.cfg = normalize(manifest.cfg, DirName),
                                      !.given = normalize(manifest.cfg, DirName)]
                /\ UNCHANGED manifest
  /\ UNCHANGED <<casVars, solutions, persisted, site, inst, calc, txt, merge, prof>>

\* cmd_use, toggle_autovenv and venv unset change the Config they loaded
Edit ==
  /\ cmd.pc = "edit"
  /\ cmd' = [cmd EXCEPT
       !.pc = "save",
       !.cfg = CASE cmd.kind = "use" -> [@ EXCEPT !.version = cmd.arg]
                 [] cmd.kind = "autovenv" ->
                      [@ EXCEPT !.autovenv = cmd.arg,
                                !.venv = IF cmd.arg THEN @ ELSE <<>>]
                 [] OTHER -> [@ EXCEPT !.venv = <<>>]]
  /\ UNCHANGED <<manifest, casVars, solutions, persisted, site, inst, calc, txt, merge, prof>>

\* what ensure_runtime_for_project returns: an error when the interpreter
\* cannot be had (lines 1476-1482), an error when the environment cannot be
\* created or has no interpreter or no site directory (1505-1524), or Ok
RuntimeOutcome(runtime, installed, created) ==
  IF ~(parse_major_minor(runtime.cfg.version) /\ installed) THEN "python"
  ELSE IF runtime.venv_name # <<>> /\ ~created THEN "venv"
  ELSE "ok"

\* a caller that goes on after an error of ensure_runtime_for_project
RuntimeNeverErr(outcome) == FALSE

\* the ? after ensure_runtime_for_project(...): the command returns the error
RuntimeIsErr(outcome) == outcome # "ok"

\* ensure_runtime_for_project and the ? of its caller
EnsureRuntime(installed, created) ==
  /\ cmd.pc = "ensure"
  /\ LET runtime == ensure_runtime_for_project(cmd.cfg)
         outcome == RuntimeOutcome(runtime, installed, created)
     IN  IF RuntimeIsErr(outcome)
           THEN cmd' = [cmd EXCEPT !.pc = "done_err", !.err = outcome,
                                   !.ensured = outcome,
                                   !.cfg = IF outcome = "venv" THEN runtime.cfg ELSE @]
           ELSE cmd' = [cmd EXCEPT !.pc = "flag", !.cfg = runtime.cfg,
                                   !.ensured = outcome,
                                   !.changed = runtime.config_changed,
                                   !.venv_name = runtime.venv_name]
  /\ UNCHANGED <<manifest, casVars, solutions, persisted, site, inst, calc, txt, merge, prof>>

\* the caller saves the manifest when config_changed is set
SaveIfChanged ==
  /\ cmd.pc = "flag"
  /\ LET next == IF cmd.kind \in Installing THEN "install" ELSE "done_ok"
     IN  IF cmd.changed
           THEN \E outcome \in SaveOutcomes :
                  /\ manifest' = Written(cmd.cfg, outcome)
                  /\ IF outcome = "ok"
                       THEN cmd' = [cmd EXCEPT !.pc = next]
                       ELSE CmdFail("save")
           ELSE /\ cmd' = [cmd EXCEPT !.pc = next]
                /\ UNCHANGED manifest
  /\ UNCHANGED <<casVars, solutions, persisted, site, inst, calc, txt, merge, prof>>

\* installer.install(...)? returns
InstallReturns(result) ==
  /\ cmd.pc = "install"
  /\ IF ResultIsErr(result)
       THEN cmd' = [cmd EXCEPT !.pc = "done_err", !.err = "install",
                               !.result = result]
       ELSE cmd' = [cmd EXCEPT !.pc = IF cmd.kind \in Recording THEN "record"
                                      ELSE "done_ok",
                               !.result = result]
  /\ UNCHANGED <<manifest, casVars, solutions, persisted, site, inst, calc, txt, merge, prof>>

\* cmd_add, cmd_import and cmd_lock put what was asked for (add, and import
\* of a requirements file) and what was resolved into deps
Record ==
  /\ cmd.pc = "record"
  /\ LET asked == IF cmd.kind \in Requesting
                    THEN DepsInsertRequested(cmd.cfg.deps, cmd.arg)
                    ELSE cmd.cfg.deps
     IN  cmd' = [cmd EXCEPT
           !.pc = "save",
           !.cfg = [@ EXCEPT !.deps = DepsInsertResolved(asked, cmd.result.resolved)]]
  /\ UNCHANGED <<manifest, casVars, solutions, persisted, site, inst, calc, txt, merge, prof>>

\* the save_project(...)? that ends a command
Save ==
  /\ cmd.pc = "save"
  /\ \E outcome \in SaveOutcomes :
       /\ manifest' = Written(cmd.cfg, outcome)
       /\ IF outcome = "ok"
            THEN cmd' = [cmd EXCEPT !.pc = "done_ok"]
            ELSE CmdFail("save")
  /\ UNCHANGED <<casVars, solutions, persisted, site, inst, calc, txt, merge, prof>>

NextCmd ==
  \/ \E cfg \in HandWritten : UserWrites(cfg)
  \/ \E kind \in Kinds : \E arg \in Args(kind) : CmdStart(kind, arg)
  \/ CmdInit
  \/ \E installed \in BOOLEAN : InstallPython(installed)
  \/ LoadOrCreate
  \/ Edit
  \/ \E installed \in BOOLEAN, created \in BOOLEAN : EnsureRuntime(installed, created)
  \/ SaveIfChanged
  \/ \E result \in InstallResults : InstallReturns(result)
  \/ Record
  \/ Save

SpecCmd == Init /\ [][NextCmd]_vars

(***************************************************************************)
(* The text specification: the three name normalizers, applied once and    *)
(* then again to their own result.                                         *)
(***************************************************************************)

\* white space, the separators the normalizers rewrite, a letter in either
\* case, and a character that is none of these
TextAlphabet == {" ", "-", "_", ".", "A", "a", "+"}

Texts == UNION {[1..n -> TextAlphabet] : n \in 0..MaxLen}

Normalizers ==
  {"normalize_dep_name", "normalize_package_identity", "normalize_venv_name"}

Apply(fn, x) ==
  CASE fn = "normalize_dep_name"         -> normalize_dep_name(x)
    [] fn = "normalize_package_identity" -> normalize_package_identity(x)
    [] OTHER                             -> normalize_venv_name(x)

InitText ==
  /\ InitDisk
  /\ calc = IdleCalc
  /\ merge = IdleMerge
  /\ txt \in {[IdleTxt EXCEPT !.x = x] : x \in Texts}

TextOnce(fn) ==
  /\ txt.step = 0
  /\ txt' = [txt EXCEPT !.fn = fn, !.once = Apply(fn, txt.x), !.step = 1]
  /\ UNCHANGED <<casVars, solutions, persisted, site, inst, calc, manifest, cmd, merge, prof>>

TextTwice ==
  /\ txt.step = 1
  /\ txt' = [txt EXCEPT !.twice = Apply(txt.fn, txt.once), !.step = 2]
  /\ UNCHANGED <<casVars, solutions, persisted, site, inst, calc, manifest, cmd, merge, prof>>

NextText ==
  \/ \E fn \in Normalizers : TextOnce(fn)
  \/ TextTwice

SpecText == InitText /\ [][NextText]_vars

(***************************************************************************)
(* dedupe_packages on its own: the list is drawn at the start                *)
(***************************************************************************)
\* length of the lists given to dedupe_packages
MaxPkgs == 3

\* PkgA as another report spells it: the name in upper case, another archive
PkgAUp == Package(<<"A">>, <<"1">>, Url2, <<>>)

\* the records the flattened reports are made of
MergePkgs == {PkgA, PkgAUp, PkgA2, PkgAB}

MergeLists == UNION {[1..n -> MergePkgs] : n \in 0..MaxPkgs}

InitDedupe ==
  /\ InitDisk
  /\ calc = IdleCalc
  /\ txt = IdleTxt
  /\ merge \in {[IdleMerge EXCEPT !.pkgs = l] : l \in MergeLists}

\* let all_packages = dedupe_packages(all_packages), line 2341
Dedupe ==
  /\ ~merge.done
  /\ merge' = [merge EXCEPT !.out = dedupe_packages(merge.pkgs), !.done = TRUE]
  /\ UNCHANGED <<casVars, solutions, persisted, site, inst, calc, manifest,
                 cmd, txt, prof>>

NextDedupe == Dedupe

SpecDedupe == InitDedupe /\ [][NextDedupe]_vars

(***************************************************************************)
(* The profiler and its spans: run, span and the Drop of SpanGuard          *)
(***************************************************************************)
\* spans a command opens
MaxSpans == 3

\* the names span is called with, lines 1470, 1676 and 2312
SpanNames == {"runtime.ensure", "python.install", "install.total"}

\* Profiler::event: one line is added to the log
event(events, name, fields) ==
  Append(events, [event |-> name, fields |-> fields])

\* a SpanGuard that writes nothing when it is dropped
DropSilent(guard, events) == events

\* Drop for SpanGuard: with a profiler, "<name>.done" with the fields of the
\* span and duration_ms
DropGuard(guard, events) ==
  IF guard.profiler
  THEN event(events, <<guard.name, ".done">>,
             guard.fields \cup {"duration_ms"})
  ELSE events

\* run, lines 47-71: the profiler is started when --profile is given, and
\* the command starts
InitSpan ==
  /\ blobs = <<>>
  /\ blobCreated = <<>>
  /\ tmpFiles = <<>>
  /\ proc = [pid |-> 1, calls |-> 0, kills |-> 0]
  /\ task = [t \in Tasks |-> IdleTask]
  /\ solutions = <<>>
  /\ persisted = {}
  /\ site = <<>>
  /\ inst = IdleInstall
  /\ manifest = NoManifest
  /\ cmd = IdleCmd
  /\ calc = IdleCalc
  /\ txt = IdleTxt
  /\ merge = IdleMerge
  /\ \E profile \in BOOLEAN :
       prof = [IdleProf EXCEPT
                 !.active = profile,
                 !.pc = "run",
                 !.events =
                   IF profile
                   THEN event(event(<<>>, <<"profile", ".session_start">>,
                                    {"pid"}),
                              <<"command", ".start">>, {"args_count"})
                   ELSE <<>>]

\* the spans of the source: python.install is also opened inside
\* runtime.ensure (line 1480), and no span is opened inside the other two
CanOpen(stack, name) ==
  \/ stack = <<>>
  \/ /\ Len(stack) = 1
     /\ stack[1].name = "runtime.ensure"
     /\ name = "python.install"

\* span, lines 3012-3022: "<name>.start" with a profiler, and the guard
Span(name) ==
  /\ prof.pc = "run"
  /\ ~prof.failing
  /\ prof.opened < MaxSpans
  /\ CanOpen(prof.stack, name)
  /\ prof' = [prof EXCEPT
       !.events = IF prof.active
                  THEN event(@, <<name, ".start">>, {"fields"})
                  ELSE @,
       !.stack = Append(@, [profiler |-> prof.active, name |-> name,
                            fields |-> {"fields"}]),
       !.opened = @ + 1]
  /\ UNCHANGED <<casVars, solutions, persisted, site, inst, calc, manifest,
                 cmd, txt, merge>>

\* the function that holds the newest guard leaves its scope, with Ok or
\* with Err: the guard is dropped. An error goes on to the caller with ?
LeaveScope(how) ==
  /\ prof.pc = "run"
  /\ prof.stack # <<>>
  /\ prof.failing => how = "err"
  /\ LET guard == prof.stack[Len(prof.stack)]
         rest == SubSeq(prof.stack, 1, Len(prof.stack) - 1)
     IN prof' = [prof EXCEPT
          !.events = DropGuard(guard, @),
          !.stack = rest,
          !.closed = Append(@, [name |-> guard.name, how |-> how]),
          !.failing = (how = "err" /\ rest # <<>>)]
  /\ UNCHANGED <<casVars, solutions, persisted, site, inst, calc, manifest,
                 cmd, txt, merge>>

\* run, lines 73-78: dispatch has returned: command.stop and the stop of the
\* profiler
Stop ==
  /\ prof.pc = "run"
  /\ prof.stack = <<>>
  /\ prof' = [prof EXCEPT
       !.pc = "stopped",
       !.events = IF prof.active
                  THEN event(event(@, <<"command", ".stop">>, {}),
                             <<"profile", ".session_stop">>, {"elapsed_ms"})
                  ELSE @]
  /\ UNCHANGED <<casVars, solutions, persisted, site, inst, calc, manifest,
                 cmd, txt, merge>>

NextSpan ==
  \/ \E name \in SpanNames : Span(name)
  \/ \E how \in {"ok", "err"} : LeaveScope(how)
  \/ Stop

SpecSpan == InitSpan /\ [][NextSpan]_vars

(***************************************************************************)
(* Properties of the content-addressed store                                *)
(***************************************************************************)
\* the hash component of a blob path: the file name without ".whl"
PathHash(path) == SubSeq(path.file, 1, Len(path.file) - Len(WhlExt))

BlobIntact(path) ==
  /\ FileExists(blobs, path)
  /\ Sha256Hex(blobs[path]) = PathHash(path)
  /\ path.xx = SubSeq(PathHash(path), 1, 2)

\* C1 (CAS integrity): every file at blobs/<xx>/<h>.whl has content whose
\* SHA-256 is h, and xx is the first two hex digits of h, in every reachable
\* state: with concurrent calls, failed downloads, checksum mismatches, the
\* copy fallback and a kill between any two steps.
C1_CasIntegrity == \A path \in DOMAIN blobs : BlobIntact(path)

\* worker t has the whole body, and its hash is not the expected one
BodyDiffers(t) ==
  /\ task[t].pc \in {"verify", "exists", "rename", "copy", "copy_write"}
  /\ ~EqIgnoreAsciiCase(task[t].expected, Sha256Hex(task[t].hasher))

\* worker t takes a step of its call (and is not killed)
Steps(t) == task'[t] # task[t] /\ task'[t].pc # "idle"

\* the step ends the call with the checksum-mismatch error naming expected
\* and actual, with the temp file gone and nothing changed under blobs/
MismatchOutcome(t) ==
  /\ task[t].pc = "verify"
  /\ task'[t].pc = "ret_err"
  /\ task'[t].err = <<"checksum mismatch", task[t].expected,
                      Sha256Hex(task[t].hasher)>>
  /\ ~FileExists(tmpFiles', task[t].tmp)
  /\ blobs' = blobs

\* C2 as stated (checksum safety): a call with a non-empty expected_hash
\* whose body hashes to another value fails with the checksum-mismatch
\* error, its temp file deleted and no file added under blobs/.
C2_NonEmptyMismatchFails ==
  [][\A t \in Tasks :
       (BodyDiffers(t) /\ Steps(t) /\ task[t].expected # <<>>)
         => MismatchOutcome(t)]_vars

\* C2 as amended: the same for an expected_hash that is non-empty after
\* trimming white space; a blank expected_hash is taken as none.
C2_ChecksumSafety ==
  [][\A t \in Tasks :
       (BodyDiffers(t) /\ Steps(t) /\ Trim(task[t].expected) # <<>>)
         => MismatchOutcome(t)]_vars

C2_Witness ==
  \E t \in Tasks :
    /\ task[t].pc = "ret_err"
    /\ task[t].err # None
    /\ task[t].err[1] = "checksum mismatch"
    /\ task[t].expected = ToUpper(Sha256Hex(BodyA))
    /\ ~FileExists(blobs, blob_path(Sha256Hex(BodyB)))

\* C9: a blob is created at most once per hash (no second creation or
\* replacement of the file at its path), and a blob that is there is never
\* deleted and, once it holds its content, never overwritten; also with
\* concurrent calls for the same content.
C9_BlobCreatedOnce ==
  /\ [](\A path \in DOMAIN blobCreated : blobCreated[path] = 1)
  /\ [][\A path \in DOMAIN blobs :
          /\ FileExists(blobs', path)
          /\ BlobIntact(path) => blobs'[path] = blobs[path]]_vars

\* C10 (atomic publication): a path that store_blob_from_url returns, also
\* through the fast path of a concurrent caller, holds the complete content
\* whose SHA-256 is the hash in the path.
C10_ReturnedBlobComplete ==
  \A t \in Tasks : task[t].pc = "ret_ok" => BlobIntact(task[t].ret)

(***************************************************************************)
(* Properties of Installer::install                                         *)
(***************************************************************************)
\* C3 (archive safety): when install_wheel_blob refuses an archive for an
\* entry that is not enclosed in the site directory, no file or directory of
\* that archive has been created in the site directory.
C3_UnsafeArchiveCreatesNothing ==
  \A t \in Tasks :
    (task[t].pc = "ret_err" /\ task[t].err = UnsafeEntryError)
      => task[t].made = {}

\* this run of install follows a run with the same requirements that
\* succeeded
SecondRun == inst.prev # None /\ inst.prev = inst.reqs

\* the dist-info scan of this run found every package of the plan that has a
\* download url
PlanRecognised ==
  inst.plan # None =>
    \A i \in 1..Len(inst.plan) :
      \/ Trim(inst.plan[i].download_url) = <<>>
      \/ package_identity_key(inst.plan[i].name, inst.plan[i].version)
            \in inst.scanned

\* C4 as stated (installer idempotence): the second of two runs of install
\* with the same requirements and site directory, the first succeeding,
\* invokes the resolver zero times, adds no file under blobs/ and writes no
\* file in the site directory.
C4_SecondRunWritesNothing ==
  SecondRun => /\ inst.calls = 0
               /\ DOMAIN blobs = inst.blobs0
               /\ ~inst.wrote

\* C4 as amended: the second run invokes the resolver zero times; when its
\* dist-info scan finds every package of the graph that has a download url,
\* it adds no file under blobs/ and writes no file in the site directory.
C4_Idempotence ==
  SecondRun => /\ inst.calls = 0
               /\ PlanRecognised => /\ DOMAIN blobs = inst.blobs0
                                    /\ ~inst.wrote

C4_Witness ==
  /\ SecondRun
  /\ inst.pc = "done_ok"
  /\ inst.plan # None
  /\ inst.plan # <<>>
  /\ PlanRecognised
  /\ inst.blobs0 # {}

\* C5 (cached solve): an install whose solve key had a graph persisted by
\* an earlier install uses the stored graph and never invokes
\* resolve_requirement.
C5_CachedSolve ==
  inst.cached =>
    /\ inst.calls = 0
    /\ inst.pc # "done_err" \/ inst.hit
    /\ inst.pc # "load" =>
         /\ inst.hit
         /\ FileExists(solutions, inst.key)
         /\ inst.graph = solutions[inst.key].graph

C5_Witness ==
  /\ inst.cached
  /\ inst.hit
  /\ inst.pc = "done_ok"
  /\ inst.prev # None
  /\ inst.prev # inst.reqs
  /\ Len(inst.graph.packages) = 2

\* C7 (graph sortedness): the packages of every graph that save_solution
\* has written are sorted by package name.
C7_PersistedGraphSorted ==
  \A k \in DOMAIN solutions :
    solutions[k].complete => SortedByName(solutions[k].graph.packages)

\* resolve_requirement failed for a requirement of this run
SomeResolveFailed ==
  \E i \in DOMAIN inst.resolved : inst.resolved[i].st = "failed"

\* C8: when resolve_requirement has failed for a requirement, install goes
\* on to nothing but its failure and there is no solution file for the solve
\* key; a solution file is created or written only when every requirement
\* of the fan-out has resolved.
C8_NoPartialSolve ==
  /\ [](SomeResolveFailed =>
          /\ inst.pc \in {"resolve", "done_err"}
          /\ ~FileExists(solutions, inst.key))
  /\ [][solutions' # solutions =>
          /\ inst.resolved # None
          /\ \A i \in DOMAIN inst.resolved : inst.resolved[i].st = "ok"]_vars

C8_Witness ==
  /\ inst.pc = "done_err"
  /\ inst.err = <<"dependency resolution failed">>
  /\ Len(inst.resolved) = 2
  /\ inst.resolved[1].st = "ok"
  /\ inst.resolved[2].st = "failed"
  /\ ~FileExists(solutions, inst.key)

(***************************************************************************)
(* Properties of the solve key                                              *)
(***************************************************************************)
\* C6 (solve-key determinism): the key install computes for a permutation
\* of a list, with white space added in front of and behind requirements,
\* is the key it computes for the list.
C6_SolveKeyDeterminism ==
  calc.key # None =>
    calc.key = solve_key(PythonVersion, normalize_requirements(calc.base))

C6_Witness ==
  /\ calc.key # None
  /\ calc.pads > 0
  /\ Len(calc.base) = 2
  /\ Trim(calc.reqs[1]) = calc.base[2]
  /\ Trim(calc.reqs[1]) # calc.base[1]
  /\ StrLess(calc.base[2], calc.base[1])

(***************************************************************************)
(* Properties of the extraction fan-out                                     *)
(***************************************************************************)
\* the identity key of the package worker t has taken
WorkerKey(t) ==
  package_identity_key(inst.plan[task[t].item].name,
                       inst.plan[task[t].item].version)

\* C11: the contains-check and the insert of the identity key are one
\* critical section, so no two workers of one install are both extracting
\* the archives of packages that have the same identity key.
C11_OneWorkerPerKey ==
  \A t, u \in Tasks :
    (t # u /\ task[t].pc = "extract" /\ task[u].pc = "extract")
      => WorkerKey(t) # WorkerKey(u)

\* C12: normalization removes duplicates: for a list with a requirement
\* repeated, the normalized list (the requirements the resolver is invoked
\* for) and the solve key are those of the list without the repetition.
C12_RepeatedRequirementSameKey ==
  (calc.key # None /\ calc.dups > 0) =>
    /\ normalize_requirements(calc.reqs) = normalize_requirements(calc.base)
    /\ calc.key = solve_key(PythonVersion, normalize_requirements(calc.base))

\* every requirement of the list is white space only
AllBlank(reqs) ==
  \A i \in 1..Len(reqs) : \A j \in 1..Len(reqs[i]) : reqs[i][j] \in {" ", "\t"}

\* C13: an install of an empty list, or of blank requirements only, returns
\* the empty list at once: no resolver call, no download, and the blobs, the
\* solutions and the site directory are as they were.
C13_BlankListUntouched ==
  /\ []((inst.runs > 0 /\ AllBlank(inst.reqs)) =>
          /\ inst.pc = "done_ok"
          /\ inst.result = <<>>
          /\ inst.calls = 0
          /\ \A t \in Tasks : task[t].pc = "idle")
  /\ [][(inst'.runs # inst.runs /\ AllBlank(inst'.reqs)) =>
          /\ blobs' = blobs
          /\ tmpFiles' = tmpFiles
          /\ solutions' = solutions
          /\ site' = site]_vars

C13_Witness ==
  /\ inst.runs = 2
  /\ inst.pc = "done_ok"
  /\ inst.reqs = << <<" ">> >>
  /\ DOMAIN blobs # {}
  /\ DOMAIN site # {}

\* C14: the package list a successful install returns is the packages of
\* its graph sorted by package name, for a memoized graph and for a fresh
\* one.
C14_ResultSorted ==
  inst.pc = "done_ok" =>
    /\ SortedByName(inst.result)
    /\ inst.graph # None =>
         /\ Len(inst.result) = Len(inst.graph.packages)
         /\ SeqToSet(inst.result) = SeqToSet(inst.graph.packages)

C14_Witness ==
  /\ inst.pc = "done_ok"
  /\ inst.hit
  /\ inst.graph.packages = <<PkgAB, PkgA>>
  /\ inst.result = <<PkgA, PkgAB>>

\* this run follows a run with the same requirements that failed in the
\* extraction fan-out
Retry == inst.redo.on

\* worker t is fetching or extracting a package the failed run extracted
Redoes(t) ==
  /\ inst.pc = "fanout"
  /\ task[t].pc # "idle"
  /\ WorkerKey(t) \in inst.redo.done

\* a failure of a worker ends the install with an error
FailureEndsInstall ==
  inst.failed => inst.pc \in {"fanout", "done_err"} /\ inst.err # None

\* no step removes a path from the site directory
SiteKept == [][DOMAIN site \subseteq DOMAIN site']_vars

\* C18 as stated: when the fetch or the extraction of a package fails,
\* install returns an error and what was extracted stays; the next install
\* with the same requirements does not run the resolver and neither fetches
\* nor extracts again a package the failed run extracted.
C18_RetrySkipsExtracted ==
  /\ [](FailureEndsInstall)
  /\ SiteKept
  /\ [](Retry => inst.calls = 0 /\ \A t \in Tasks : ~Redoes(t))

\* C18 as amended: the same, for the packages the failed run extracted
\* whose identity key the dist-info scan of the next run finds.
C18_RetrySkipsRecognised ==
  /\ [](FailureEndsInstall)
  /\ SiteKept
  /\ [](Retry =>
          /\ inst.calls = 0
          /\ \A t \in Tasks : Redoes(t) => WorkerKey(t) \notin inst.scanned)

C18_Witness ==
  /\ Retry
  /\ inst.pc = "done_ok"
  /\ inst.redo.done # {}
  /\ inst.redo.done \subseteq inst.scanned
  /\ Len(inst.plan) = 2

(***************************************************************************)
(* The manifest and the commands.                                          *)
(***************************************************************************)

\* this step is a save_project that returned Ok
Saves ==
  /\ \/ cmd.pc = "save"
     \/ cmd.pc = "flag" /\ cmd.changed
     \/ cmd.pc = "load" /\ manifest.state = "absent"
  /\ cmd'.pc # "done_err"

\* the Config the save of this step was given
Saved == cmd'.cfg

\* C15: after any save of the manifest by any command, every string field
\* that was blank in the saved configuration holds its default in the file
\* (the project name the directory name, the version "3.12", the cache mode
\* "global-cas", the cache directory the default one), and the version in the
\* file parses into two unsigned integers MAJOR.MINOR.
C15_SavedManifestNormal ==
  [][ Saves =>
        /\ manifest'.state = "file"
        /\ Trim(Saved.name) = <<>> => manifest'.cfg.name = DirName
        /\ Trim(Saved.version) = <<>> => manifest'.cfg.version = default_python_version
        /\ Trim(Saved.mode) = <<>> => manifest'.cfg.mode = default_cache_mode
        /\ Trim(Saved.global_dir) = <<>> => manifest'.cfg.global_dir = xe_cache_dir
        /\ parse_major_minor(manifest'.cfg.version) ]_vars

\* the slug of a name: lower case, spaces and underscores to hyphens, no
\* character outside a-z, 0-9 and the hyphen, no hyphen at either end, and
\* "default" for what would be empty
Slug(name) ==
  LET s == TrimMatches(KeepSlugChars(Replace(Replace(ToLower(name), " ", "-"),
                                             "_", "-")), "-")
  IN  IF s = <<>> THEN <<"d", "e", "f", "a", "u", "l", "t">> ELSE s

\* the manifest the command loaded has autoprovision set and no environment
Autoprovisions ==
  /\ cmd.kind \in Installing \cup {"list"}
  /\ cmd.given.autovenv
  /\ cmd.given.venv = <<>>

AutoName == <<"a", "u", "t", "o", "-">> \o Slug(cmd.given.name)

\* C16: when the manifest has autoprovision set and an empty environment
\* name and ensure_runtime returns a runtime, the environment name it
\* selects is "auto-" followed by the slug of the project name ("default"
\* for an empty slug); the save of the calling command that follows writes
\* that name into the manifest file, and the file keeps it to the end of the
\* command.
C16_AutoprovisionName ==
  /\ [](cmd.pc = "flag" /\ Autoprovisions =>
          cmd.venv_name = AutoName /\ cmd.cfg.venv = AutoName)
  /\ [][cmd.pc = "flag" /\ Autoprovisions /\ cmd'.pc # "done_err" =>
          manifest'.state = "file" /\ manifest'.cfg.venv = AutoName]_vars
  /\ [](cmd.pc \in {"install", "record", "save", "done_ok"} /\ Autoprovisions
          /\ manifest.state = "file" => manifest.cfg.venv = AutoName)

\* the project " My Tool_v2 " got the environment auto-my-tool-v2, and the
\* manifest holds the name when install is called
C16_Witness ==
  /\ cmd.pc = "install"
  /\ Autoprovisions
  /\ cmd.given.name = MyTool
  /\ manifest.state = "file"
  /\ manifest.cfg.venv = <<"a", "u", "t", "o", "-", "m", "y", "-", "t", "o", "o", "l",
                           "-", "v", "2">>

\* C17: each of normalize_dep_name, normalize_package_identity and
\* normalize_venv_name, applied to its own result, returns that result.
C17_NormalizersIdempotent ==
  txt.step = 2 => txt.twice = txt.once

\* a normalizer changed a text and was applied again to what it returned
C17_Witness ==
  /\ txt.step = 2
  /\ txt.once # txt.x
  /\ txt.once # <<>>

\* C19: install never writes the manifest (the file is the same at its
\* return, Ok or Err, as at its call); while add, import or lock runs, deps
\* in the file changes only in the save that follows an install that
\* returned Ok; after an install that failed the file holds the deps that
\* were loaded.
C19_InstallLeavesManifest ==
  /\ [][cmd.pc = "install" => manifest' = manifest]_vars
  /\ [][Running /\ cmd.kind \in Recording /\ manifest.state = "file"
          /\ manifest'.state = "file" /\ manifest'.cfg.deps # manifest.cfg.deps
        => cmd.pc = "save" /\ cmd.result.ok]_vars
  /\ [](cmd.pc = "done_err" /\ cmd.err = "install" =>
          manifest.state = "file" /\ manifest.cfg.deps = cmd.given.deps)

\* add has failed in install, after the name of the environment was saved,
\* in a project whose manifest holds deps
C19_Witness ==
  /\ cmd.pc = "done_err"
  /\ cmd.err = "install"
  /\ cmd.kind = "add"
  /\ cmd.changed
  /\ cmd.given.deps # {}
  /\ manifest.cfg.venv # cmd.given.venv

\* C20: when ensure_runtime returns a runtime, config_changed is true exactly
\* when the configuration it leaves differs from the one it was given; a
\* configuration that differs does so in the environment name alone, which
\* was blank under autoprovision; and the step of the caller that follows
\* writes the manifest when config_changed is true and leaves the file as it
\* is when it is false.
C20_SavedWhenChanged ==
  /\ [](cmd.pc = "flag" =>
          /\ cmd.changed <=> cmd.cfg # cmd.given
          /\ cmd.cfg # cmd.given =>
                /\ [cmd.cfg EXCEPT !.venv = cmd.given.venv] = cmd.given
                /\ cmd.given.autovenv
                /\ Trim(cmd.given.venv) = <<>>)
  /\ [][cmd.pc = "flag" =>
          /\ ~cmd.changed => manifest' = manifest
          /\ cmd.changed /\ cmd'.pc # "done_err" =>
                manifest' = ManifestOf(cmd.cfg) /\ manifest' # manifest]_vars

\* a command has saved the manifest for the flag, and the file now holds an
\* environment name the loaded configuration did not
C20_Witness ==
  /\ cmd.pc \in {"install", "done_ok"}
  /\ cmd.kind \in Installing \cup {"list"}
  /\ cmd.changed
  /\ manifest.state = "file"
  /\ manifest.cfg.venv # cmd.given.venv

(***************************************************************************)
(* The blob store and the temp files, once more.                           *)
(***************************************************************************)

\* this step is a step of the call of worker t, and not the end of the
\* process
Moves(t) == task'[t] # task[t] /\ proc'.pid = proc.pid

\* the places of a call up to its test for the blob
BeforeTest == {"fast", "send", "create_tmp", "read", "verify", "exists"}

\* C22: a call of store_blob_from_url that finds the blob of its archive in
\* the CAS adds no file under blobs/ and returns the path of that blob:
\* with the hash of the blob as expected_sha256 it returns from the fast
\* path, without a request and without a temp file; without an expected
\* hash it returns after the download, with its temp file removed. No step
\* of a call up to the test touches blobs/ and no step removes a blob.
C22_BlobDedup ==
  [][ /\ DOMAIN blobs \subseteq DOMAIN blobs'
      /\ \A t \in Tasks : Moves(t) =>
            /\ task[t].pc \in BeforeTest => blobs' = blobs
            /\ ( /\ task[t].pc = "fast"
                 /\ Trim(task[t].expected) # <<>>
                 /\ FileExists(blobs, blob_path(task[t].expected)) ) =>
                  /\ task'[t].pc = "ret_ok"
                  /\ task'[t].ret = blob_path(task[t].expected)
                  /\ task'[t].resp = None
                  /\ task'[t].tmp = None
                  /\ tmpFiles' = tmpFiles
            /\ ( /\ task[t].pc = "exists"
                 /\ FileExists(blobs, blob_path(Sha256Hex(task[t].hasher))) ) =>
                  /\ task'[t].pc = "ret_ok"
                  /\ task'[t].ret = blob_path(Sha256Hex(task[t].hasher))
                  /\ ~FileExists(tmpFiles', task[t].tmp) ]_vars

\* two calls have downloaded the same archive, one of them without an
\* expected hash, and returned the same path, and the blob at that path was
\* stored once: one of the two found it there
C22_Witness ==
  /\ proc.kills = 0
  /\ task[1].pc = "ret_ok"
  /\ task[2].pc = "ret_ok"
  /\ task[1].target # None
  /\ task[2].target # None
  /\ Trim(task[2].expected) = <<>>
  /\ task[1].ret = task[2].ret
  /\ blobCreated[task[1].ret] = 1

\* worker t holds a temp file between its creation and the end of the call
HoldsTmp(t) ==
  task[t].pc \in {"read", "verify", "exists", "rename", "copy", "copy_write"}

\* C25: two calls of store_blob_from_url that run at the same time in the
\* workers of one process never use the same temp file path.
C25_TempPathsUnique ==
  \A t, u \in Tasks :
    (t # u /\ HoldsTmp(t) /\ HoldsTmp(u)) => task[t].tmp # task[u].tmp

\* ensure_runtime_for_project returned an error to the command
EnsureFailed(c) == c.ensured \in {"python", "venv"}

\* C29: when ensure_runtime fails, the manifest file stays as it was when
\* ensure_runtime was called: no step of the command changes the file from
\* the failure on, the file holds what the command loaded, and so an
\* environment name synthesized in the failed call is not in the file.
C29_FailedRuntimeLeavesManifest ==
  /\ [][EnsureFailed(cmd') => manifest' = manifest]_vars
  /\ [](EnsureFailed(cmd) =>
          /\ manifest.state = "file"
          /\ normalize(manifest.cfg, DirName) = cmd.given)

\* the creation of the environment failed after its name was synthesized
C29_Witness ==
  /\ cmd.pc = "done_err"
  /\ cmd.ensured = "venv"
  /\ cmd.given.venv = <<>>
  /\ cmd.cfg.venv # <<>>
  /\ manifest.cfg.venv = <<>>

(***************************************************************************)
(* Installs after a deletion of the memoized graph, a failure or a kill    *)
(***************************************************************************)

\* this run follows a run with the same requirements that succeeded, and the
\* solution file of that run was deleted before this run started
Forgotten == SecondRun /\ inst.norm # <<>> /\ ~inst.cached

\* C21: a package of the plan whose identity key the scan of the site
\* directory found is taken by no worker, so it is neither fetched nor
\* extracted; a run that follows a successful run whose solution file was
\* deleted calls the resolver for every requirement, and when the scan finds
\* the dist-info directory of every package of the plan it stores no blob
\* and writes nothing into the site directory.
C21_InstalledSetSkip ==
  /\ \A t \in Tasks :
       (inst.pc = "fanout" /\ task[t].pc # "idle") => WorkerKey(t) \notin inst.scanned
  /\ Forgotten =>
       /\ ~inst.hit
       /\ inst.pc \in {"save", "save_write", "scan", "fanout", "done_ok"} =>
            inst.calls = Len(inst.norm)
       /\ PlanRecognised =>
            /\ \A t \in Tasks : task[t].pc = "idle"
            /\ ~inst.wrote
            /\ DOMAIN blobs = inst.blobs0

\* the run after the deletion has resolved again and returned, and every
\* package of its plan was skipped
C21_Witness ==
  /\ Forgotten
  /\ inst.pc = "done_ok"
  /\ inst.calls > 0
  /\ inst.plan # <<>>
  /\ PlanRecognised
  /\ FileExists(solutions, inst.key)

\* the entries of the archive of a package
WheelOf(pkg) == ZipEntries(CHOOSE body \in Serves(pkg.download_url) : TRUE)

\* the site directory holds what the entry stands for
Extracted(e) ==
  LET path == ResolvePath(Components(e.name), <<>>)
  IN  /\ FileExists(site, path)
      /\ IF IsDirEntry(e.name)
           THEN site[path].kind = "dir"
           ELSE site[path].kind = "file" /\ site[path].data = e.data

\* C28: when an install was killed or failed in the extraction fan-out and
\* a later install with the same requirements returns success, the site
\* directory holds every file of the archive of every package of the plan
\* that has a download url.
C28_RecoveryComplete ==
  (Retry /\ inst.pc = "done_ok") =>
    \A i \in 1..Len(inst.plan) :
      Trim(inst.plan[i].download_url) # <<>> =>
        \A j \in 1..Len(WheelOf(inst.plan[i])) : Extracted(WheelOf(inst.plan[i])[j])

\* C30: load_solution finds no file for the solve key or a file that holds
\* a complete graph written by save_solution, also after an install was
\* killed in save_solution; it never reads a file that is partly written.
C30_NoPartialSolutionRead ==
  inst.pc = "load" =>
    \/ ~FileExists(solutions, inst.key)
    \/ solutions[inst.key].complete


(***************************************************************************)
(* Properties of dedupe_packages                                            *)
(***************************************************************************)
\* lower(name) "==" version, as the documentation of the resolver writes it
MergeKey(pkg) == <<ToLower(pkg.name), "==", pkg.version>>

\* the place of the last record of the list with the key of pkg
LastWithKey(pkgs, pkg) ==
  CHOOSE j \in 1..Len(pkgs) :
    /\ MergeKey(pkgs[j]) = MergeKey(pkg)
    /\ \A k \in (j + 1)..Len(pkgs) : MergeKey(pkgs[k]) # MergeKey(pkg)

\* C23: the output of dedupe_packages holds exactly one record for every key
\* lower(name)==version of the input, no record for any other key, and the
\* record it holds for a key is the last record of the input with that key
C23_OnePerKeyLastKept ==
  merge.done =>
    /\ \A i, j \in 1..Len(merge.out) :
         MergeKey(merge.out[i]) = MergeKey(merge.out[j]) => i = j
    /\ {MergeKey(merge.out[i]) : i \in 1..Len(merge.out)}
         = {MergeKey(merge.pkgs[j]) : j \in 1..Len(merge.pkgs)}
    /\ \A i \in 1..Len(merge.out) :
         merge.out[i] = merge.pkgs[LastWithKey(merge.pkgs, merge.out[i])]

\* a list with two different records under one key, and a third between them,
\* has been deduplicated
C23_Witness ==
  /\ merge.done
  /\ Len(merge.pkgs) = 3
  /\ MergeKey(merge.pkgs[1]) = MergeKey(merge.pkgs[3])
  /\ merge.pkgs[1] # merge.pkgs[3]
  /\ MergeKey(merge.pkgs[2]) # MergeKey(merge.pkgs[1])
  /\ Len(merge.out) = 2

(***************************************************************************)
(* Properties of the graph install persists and returns                     *)
(***************************************************************************)
\* no two records of the list name one project, whatever the case of the
\* letters, with two versions
OneVersionEach(pkgs) ==
  \A i, j \in 1..Len(pkgs) :
    ToLower(pkgs[i].name) = ToLower(pkgs[j].name)
      => pkgs[i].version = pkgs[j].version

\* C27: every graph install has built, every graph in a solution file
\* written in full and every list install returns holds at most one version
\* of each package
C27_OneVersionPerPackage ==
  /\ inst.graph # None => OneVersionEach(inst.graph.packages)
  /\ \A k \in DOMAIN solutions :
       solutions[k].complete => OneVersionEach(solutions[k].graph.packages)
  /\ inst.pc = "done_ok" => OneVersionEach(inst.result)

(***************************************************************************)
(* Properties of the extraction of an archive                               *)
(***************************************************************************)
HasDotDot(name) ==
  \E i \in 1..Len(Components(name)) : Components(name)[i] = DotDot

IsAbsolute(name) == name # <<>> /\ Head(name) = "/"

\* C24: a worker that takes an entry that is a symbolic link, an absolute
\* path or a path with a ".." component ends with the error for an unsafe
\* entry and leaves the site directory as it was
C24_UnsafeEntriesRefused ==
  [][ ( /\ task[1].pc = "extract"
        /\ task[1].entries # <<>>
        /\ task'[1] # task[1]
        /\ LET e == Head(task[1].entries)
           IN e.link \/ IsAbsolute(e.name) \/ HasDotDot(e.name) )
      => ( /\ task'[1].pc = "ret_err"
           /\ task'[1].err = UnsafeEntryError
           /\ site' = site ) ]_vars

(***************************************************************************)
(* Properties of the spans                                                  *)
(***************************************************************************)
\* the lines among the first k of the log that carry the event
CountEvents(ev, k) ==
  Cardinality({i \in 1..k : prof.events[i].event = ev})

CountClosed(name) ==
  Cardinality({i \in 1..Len(prof.closed) : prof.closed[i].name = name})

CountAlive(name) ==
  Cardinality({i \in 1..Len(prof.stack) : prof.stack[i].name = name})

\* C26: with a profiler, the log holds one "<name>.start" for every span
\* opened under the name and one "<name>.done" for every one of them whose
\* scope has been left, with Ok or with Err; every "<name>.done" carries a
\* duration and comes after a "<name>.start" that no earlier "<name>.done"
\* answers
C26_OneDonePerSpan ==
  prof.active =>
    \A name \in SpanNames :
      LET n == Len(prof.events) IN
      /\ CountEvents(<<name, ".done">>, n) = CountClosed(name)
      /\ CountEvents(<<name, ".start">>, n)
           = CountClosed(name) + CountAlive(name)
      /\ \A k \in 1..n :
           prof.events[k].event = <<name, ".done">> =>
             /\ "duration_ms" \in prof.events[k].fields
             /\ CountEvents(<<name, ".start">>, k - 1)
                  > CountEvents(<<name, ".done">>, k - 1)

\* with a profiler, a span inside another has been left with an error, the
\* outer one with it, a later span has returned Ok, and the command is over
C26_Witness ==
  /\ prof.active
  /\ prof.pc = "stopped"
  /\ Len(prof.closed) = 3
  /\ prof.closed[1] = [name |-> "python.install", how |-> "err"]
  /\ prof.closed[2] = [name |-> "runtime.ensure", how |-> "err"]
  /\ prof.closed[3] = [name |-> "install.total", how |-> "ok"]

====
